---- MODULE Spec2Model ----
(***************************************************************************)
(* ICS-Guard: flow-detection pipeline, auto-responder, controller REST     *)
(* client, UI event cache (application side) and the policy engine         *)
(* (controller side).                                                      *)
(*                                                                         *)
(* The module holds one state machine per component; each has its own      *)
(* next-state relation and specification over the same variables and the   *)
(* same initial state (a component's specification leaves alone the        *)
(* variables its code does not write):                                     *)
(*   SpecResp    _auto_respond_to_dangerous_flow      (flow_detection.py)  *)
(*   SpecPolicy  PolicyManager.check_packet           (policy.py)          *)
(*   SpecPipe    handle_flow_event, _batcher_loop, _process_batch          *)
(*   SpecRing    record_event_for_ui                  (event_subscriber.py)*)
(*   SpecClient  ControllerClient._request            (controller_client)  *)
(*   SpecLevel   get_decision_level, predict_flow     (inference.py)       *)
(*   SpecSub     EndpointSubscriber.connect, _dispatch                     *)
(*   SpecLife    EventSubscriberManager.start/stop, flow worker start/stop *)
(*   SpecQuery   get_recent_events behind GET /events (api/events.py)      *)
(*   SpecFwd     ForwardingEngine.handle_packet_in    (forwarding.py)      *)
(*   SpecStop    stop_flow_detection_workers, with its timeouts            *)
(*   SpecStopAsync  the same, with a dispatcher that may be kept waiting   *)
(*   SpecPredict InferenceService.predict_flow        (inference.py)       *)
(*   SpecMeter   the meter of a throttle rule          (forwarding.py)      *)
(***************************************************************************)
EXTENDS Integers, Sequences, FiniteSets, TLC

VARIABLES
    responded_flows,   \* _responded_flows: set of flow ids and log keys
    ar,                \* auto-responder threads: invocation -> local state
    policies,          \* controller side: policies created, in creation order
    ui_events,         \* _ui_events: the event ring buffer
    appended,          \* history: every event ever appended to _ui_events
    event_logs,        \* table event_logs: the EventLog rows persisted
    ui_stream,         \* messages handed to enqueue_ui_event, in order
    cp_policies,       \* PolicyManager.policies, in dict (insertion) order
    cp_packet,         \* the packet handed to check_packet
    cp_result,         \* what check_packet returned ("none" before the call)
    flow_rules,        \* whether a datapath holds a forwarding flow rule
    task_queue,        \* _task_queue
    batcher,           \* _batcher_loop: position and local list `tasks`
    exec_queue,        \* ThreadPoolExecutor work queue (submitted batches)
    workers,           \* pool workers: worker -> state of its _process_batch
    db_rows,           \* table app_flows: flow_id -> row (or NoRow)
    det_logs,          \* table flow_detection_logs, committed rows
    pipe,              \* history of the pipeline (accepted events, batches)
    token,             \* ControllerClient._token
    now,               \* time.time()
    token_lock,        \* ControllerClient._token_lock: "free", else the holder
    cl,                \* client threads: thread -> state of its _request
    issued,            \* number of token pairs the controller has issued
    thresholds,        \* InferenceService._threshold_config
    decisions,         \* history: the results predict_flow returned so far
    ws_handlers,       \* EventSubscriberManager._handlers: type -> list
    sub,               \* EndpointSubscriber per endpoint: its connect() coroutine
    frames,            \* history: frames received, and the last one dispatched
    mgr,               \* EventSubscriberManager: _running, _thread, _loop, _subscribers
    threads,           \* the manager's background threads, in creation order
    cos,               \* connect() coroutines on the threads' event loops
    disc,              \* disconnect() coroutines scheduled by stop()
    obj_running,       \* the subscriber objects whose _running is True
    fw,                \* flow_detection: _workers_started, _executor, _batcher_thread
    recent,            \* the last answer of GET /events, with its parameters
    pkt_in,            \* history: what handle_packet_in did with the last packet-in
    sd,                \* the flow workers seen by stop_flow_detection_workers
    pf,                \* the last call of predict_flow: its flow and its answer
    mt                 \* the last meter installed for a throttle rule

vars == <<responded_flows, ar, policies, ui_events, appended, event_logs, ui_stream,
          cp_policies, cp_packet, cp_result, flow_rules,
          task_queue, batcher, exec_queue, workers, db_rows, det_logs, pipe,
          token, now, token_lock, cl, issued,
          thresholds, decisions, ws_handlers, sub, frames,
          mgr, threads, cos, disc, obj_running, fw, recent, pkt_in, sd, pf, mt>>

respVars   == <<responded_flows, ar, policies>>
ringVars   == <<ui_events, appended, event_logs, ui_stream>>
policyVars == <<cp_policies, cp_packet, cp_result, flow_rules>>
pipeVars   == <<task_queue, batcher, exec_queue, workers, db_rows, det_logs, pipe>>
clientVars == <<token, now, token_lock, cl, issued>>
levelVars  == <<thresholds, decisions>>

\* the variables of the components above, and of those below
coreVars   == <<respVars, ringVars, policyVars, pipeVars, clientVars>>
subVars    == <<ws_handlers, sub, frames>>
lifeVars   == <<mgr, threads, cos, disc, obj_running, fw>>
queryVars  == <<recent>>
fwdVars    == <<pkt_in>>
stopVars   == <<sd>>
fnVars     == <<pf, mt>>
extVars    == <<levelVars, subVars, lifeVars, queryVars, fwdVars, stopVars, fnVars>>

----------------------------------------------------------------------------
(* Values                                                                  *)

\* Python's None (an absent key, a missing value)
None == "None"

----------------------------------------------------------------------------
(* Event types and the UI event ring buffer (event_subscriber.py)          *)

\* the members of class EventType; the source's enum has these seven
EventTypeMembers ==
    {"NETWORK_STATUS", "NODE_METRICS", "TRAFFIC_ANOMALY", "HONEYPOT_INTERACTION",
     "TOPOLOGY_CHANGE", "FLOW_UPDATE", "FLOW_DETECTION"}

\* _ui_events_max_len is 200 in the source; the model scales it down
ui_events_max_len == 3

\* faulty variant: the trim deletes from the wrong end of the list
RingAppend_dropNewest(buf, ev) ==
    LET b == Append(buf, ev)
    IN  IF Len(b) > ui_events_max_len THEN SubSeq(b, 1, ui_events_max_len) ELSE b

\* with _ui_events_lock: append; del _ui_events[0 : len - max]
RingAppend(buf, ev) ==
    LET b == Append(buf, ev)
    IN  IF Len(b) > ui_events_max_len
        THEN SubSeq(b, Len(b) - ui_events_max_len + 1, Len(b))
        ELSE b


\* the number of record_event_for_ui calls a run of the model makes
MaxRecorded == ui_events_max_len + 2

\* shapes of the data of an incoming event: "metrics_only" is a
\* network_status_update carrying node_id and metric fields and nothing else,
\* "status_metrics" one that also carries a status, "plain" carries no metric
DataShapes == {"plain", "metrics_only", "status_metrics"}

\* the four stores record_event_for_ui writes, as one value
RingState == [ui_events |-> ui_events, appended |-> appended,
              event_logs |-> event_logs, ui_stream |-> ui_stream]

\* record_event_for_ui(event): split of node metrics, ring append, EventLog
\* row (its failure is swallowed), hand-over to the UI stream
Recorded(st, type, shape, flow, persist_ok) ==
    LET ev      == [type |-> type, flow |-> flow, n |-> Len(st.appended) + 1]
        metrics == type = "NETWORK_STATUS" /\ shape # "plain"
        stream1 == IF metrics
                   THEN Append(st.ui_stream, [type |-> "NODE_METRICS", flow |-> flow, n |-> 0])
                   ELSE st.ui_stream
    IN  IF metrics /\ shape = "metrics_only"
        THEN [st EXCEPT !.ui_stream = stream1]
        ELSE [ui_events |-> RingAppend(st.ui_events, ev),
              appended |-> Append(st.appended, ev),
              event_logs |-> IF type # "FLOW_UPDATE" /\ persist_ok
                             THEN Append(st.event_logs, ev) ELSE st.event_logs,
              ui_stream |-> Append(stream1, ev)]

SetRing(st) ==
    /\ ui_events' = st.ui_events
    /\ appended' = st.appended
    /\ event_logs' = st.event_logs
    /\ ui_stream' = st.ui_stream

RecordEventForUi(type, shape, flow, persist_ok) ==
    SetRing(Recorded(RingState, type, shape, flow, persist_ok))

InitRing ==
    /\ ui_events = <<>>
    /\ appended = <<>>
    /\ event_logs = <<>>
    /\ ui_stream = <<>>

\* event types the bus handlers record (app/__init__.py registers
\* record_event_for_ui for every subscribed endpoint)
RecordedTypes == {"NETWORK_STATUS", "FLOW_UPDATE", "TRAFFIC_ANOMALY"}

\* one call of record_event_for_ui by a bus handler thread
RecordEvent ==
    /\ Len(ui_stream) < MaxRecorded + 2
    /\ Len(appended) < MaxRecorded
    /\ \E type \in RecordedTypes, shape \in DataShapes, persist_ok \in BOOLEAN :
          /\ shape # "plain" => type = "NETWORK_STATUS"
          /\ (type = "FLOW_UPDATE" => persist_ok)
          /\ RecordEventForUi(type, shape, None, persist_ok)
    /\ UNCHANGED <<respVars, policyVars, pipeVars, clientVars, extVars>>

----------------------------------------------------------------------------
(* Auto-responder: _auto_respond_to_dangerous_flow (flow_detection.py)     *)

Flows == {"f1", "f2"}

\* number of auto-responder threads the pipeline starts in a run
NumResponders == 2

Responders == 1..NumResponders

\* the values of class DecisionLevel (inference.py), in their order
DecisionLevels == <<"normal", "alert", "throttle", "block", "redirect">>

\* _process_batch starts the responder for these decision levels only
RespondLevels == {"block", "redirect"}

\* what a call of the controller client can do to its caller: return, raise,
\* or never return (ensure_token blocks on its own mutex, see ClEnsure)
CallOutcomes == {"ok", "raise", "hang"}

\* topologies get_topology may return: lists of nodes (type, ip)
TopologyChoices ==
    { <<>>,
      << [type |-> "plc", ip |-> "10.0.1.20"] >>,
      << [type |-> "honeypot", ip |-> ""], [type |-> "honeypot", ip |-> "10.0.9.9"] >>,
      << [type |-> "switch", ip |-> ""], [type |-> "honeypot", ip |-> "10.0.9.1"],
         [type |-> "honeypot", ip |-> "10.0.9.9"] >> }

\* for node in nodes: if type == "honeypot" and ip: honeypot_ip = ip; break
RECURSIVE FirstHoneypot(_)
FirstHoneypot(nodes) ==
    IF nodes = <<>> THEN None
    ELSE IF Head(nodes).type = "honeypot" /\ Head(nodes).ip # ""
         THEN Head(nodes).ip
         ELSE FirstHoneypot(Tail(nodes))

\* faulty variant: a redirect without a honeypot is not downgraded
FinalAction_noDowngrade(decision_level, honeypot_ip) ==
    IF decision_level \in {"redirect", "block"} THEN decision_level ELSE "none"

\* step 2 of the responder: "none" stands for the bare `return`
FinalAction(decision_level, honeypot_ip) ==
    IF decision_level = "redirect"
    THEN (IF honeypot_ip # None THEN "redirect" ELSE "block")
    ELSE IF decision_level = "block" THEN "block" ELSE "none"

\* the EventType member the responder names for its event
ResponderEventType(final_action) ==
    IF final_action = "block" THEN "TRAFFIC_BLOCK"
    ELSE IF final_action = "redirect" THEN "TRAFFIC_REDIRECT"
    ELSE "TRAFFIC_ANOMALY"

\* topo is history: what get_topology answered (ok = FALSE: it raised)
NoTopology == [ok |-> FALSE, nodes |-> <<>>]

\* overlaps is history too: the invocations that had been entered and had
\* not ended when this one was entered
ArIdle == [pc |-> "idle", flow |-> None, level |-> None, honeypot |-> None,
           action |-> None, policy_id |-> 0, failed_at |-> None, topo |-> NoTopology,
           overlaps |-> {}]

\* faulty variant: the failure handler leaves the flow in the set
RespondedAfterFailure_keep(S, f) == S

\* except: with lock: if flow_id in _responded_flows: remove(flow_id)
RespondedAfterFailure(S, f) == IF f \in S THEN S \ {f} ELSE S

InitResp ==
    /\ responded_flows = {}
    /\ ar = [i \in Responders |-> ArIdle]
    /\ policies = <<>>

\* _auto_respond_to_dangerous_flow(flow_id, flow_data, decision_level) is
\* entered; decision_level is any value of DecisionLevel (_process_batch
\* passes block and redirect only)
ArStart(i) ==
    /\ ar[i].pc = "idle"
    /\ \A j \in Responders : j < i => ar[j].pc # "idle"
    /\ \E f \in Flows, lvl \in {DecisionLevels[k] : k \in 1..Len(DecisionLevels)} :
          ar' = [ar EXCEPT ![i] = [ArIdle EXCEPT !.pc = "gate", !.flow = f, !.level = lvl,
                      !.overlaps = { j \in Responders :
                                       ar[j].pc \notin {"idle", "returned", "failed"} }]]
    /\ UNCHANGED <<responded_flows, policies, ringVars, policyVars, pipeVars, clientVars, extVars>>

\* faulty variant: the gate tests the set and does not insert
ArGate_testOnly(i) ==
    /\ ar[i].pc = "gate"
    /\ IF ar[i].flow \in responded_flows
       THEN ar' = [ar EXCEPT ![i].pc = "returned"]
       ELSE ar' = [ar EXCEPT ![i].pc = "topology"]
    /\ UNCHANGED <<responded_flows, policies, ringVars, policyVars, pipeVars, clientVars, extVars>>

\* the once-per-flow gate, one critical section of _responded_flows_lock
ArGate(i) ==
    /\ ar[i].pc = "gate"
    /\ IF ar[i].flow \in responded_flows
       THEN /\ ar' = [ar EXCEPT ![i].pc = "returned"]
            /\ UNCHANGED responded_flows
       ELSE /\ responded_flows' = responded_flows \cup {ar[i].flow}
            /\ ar' = [ar EXCEPT ![i].pc = "topology"]
    /\ UNCHANGED <<policies, ringVars, policyVars, pipeVars, clientVars, extVars>>

\* steps 1 and 2: honeypot lookup (its failure is swallowed) and the action
ArTopology(i) ==
    /\ ar[i].pc = "topology"
    /\ \E out \in CallOutcomes :
         IF out = "hang"
         THEN ar' = [ar EXCEPT ![i].pc = "hung"]
         ELSE \E topo \in TopologyChoices :
                LET hp  == IF out = "raise" THEN None ELSE FirstHoneypot(topo)
                    act == FinalAction(ar[i].level, hp)
                IN  ar' = [ar EXCEPT ![i].honeypot = hp, ![i].action = act,
                                     ![i].topo = [ok |-> out = "ok",
                                                  nodes |-> IF out = "ok" THEN topo ELSE <<>>],
                                     ![i].pc = IF act = "none" THEN "returned" ELSE "create"]
    /\ UNCHANGED <<responded_flows, policies, ringVars, policyVars, pipeVars, clientVars, extVars>>

\* step 3: resp = client.create_policy(policy_def); the controller answers
\* with the new policy's id (controller/api.py, create_policy)
ArCreate(i) ==
    /\ ar[i].pc = "create"
    /\ \E out \in CallOutcomes :
         CASE out = "hang"  -> /\ ar' = [ar EXCEPT ![i].pc = "hung"]
                               /\ UNCHANGED policies
           [] out = "raise" -> /\ ar' = [ar EXCEPT ![i].pc = "except", ![i].failed_at = "create"]
                               /\ UNCHANGED policies
           [] out = "ok"    -> /\ policies' = Append(policies,
                                     [id |-> Len(policies) + 1, flow |-> ar[i].flow,
                                      action |-> ar[i].action, priority |-> 100,
                                      target |-> IF ar[i].action = "redirect"
                                                 THEN ar[i].honeypot ELSE None,
                                      applied |-> FALSE])
                               /\ ar' = [ar EXCEPT ![i].pc = "apply",
                                                    ![i].policy_id = Len(policies) + 1]
    /\ UNCHANGED <<responded_flows, ringVars, policyVars, pipeVars, clientVars, extVars>>

\* step 4: client.apply_policy(policy_id, target_flows=[flow_id])
ArApply(i) ==
    /\ ar[i].pc = "apply"
    /\ \E out \in CallOutcomes :
         CASE out = "hang"  -> /\ ar' = [ar EXCEPT ![i].pc = "hung"]
                               /\ UNCHANGED policies
           [] out = "raise" -> /\ ar' = [ar EXCEPT ![i].pc = "except", ![i].failed_at = "apply"]
                               /\ UNCHANGED policies
           [] out = "ok"    -> /\ policies' = [policies EXCEPT ![ar[i].policy_id].applied = TRUE]
                               /\ ar' = [ar EXCEPT ![i].pc = "emit"]
    /\ UNCHANGED <<responded_flows, ringVars, policyVars, pipeVars, clientVars, extVars>>

\* step 5: event_type = EventType.TRAFFIC_BLOCK / TRAFFIC_REDIRECT, then
\* record_event_for_ui(event); naming a member the enum lacks raises
ArEmit(i) ==
    /\ ar[i].pc = "emit"
    /\ LET et == ResponderEventType(ar[i].action)
       IN  IF et \in EventTypeMembers
           THEN /\ \E persist_ok \in BOOLEAN :
                     RecordEventForUi(et, "plain", ar[i].flow, persist_ok)
                /\ ar' = [ar EXCEPT ![i].pc = "returned"]
           ELSE /\ ar' = [ar EXCEPT ![i].pc = "except", ![i].failed_at = "emit"]
                /\ UNCHANGED ringVars
    /\ UNCHANGED <<responded_flows, policies, policyVars, pipeVars, clientVars, extVars>>

\* except Exception: remove the flow from the set so that it can be retried
ArExcept(i) ==
    /\ ar[i].pc = "except"
    /\ responded_flows' = RespondedAfterFailure(responded_flows, ar[i].flow)
    /\ ar' = [ar EXCEPT ![i].pc = "failed"]
    /\ UNCHANGED <<policies, ringVars, policyVars, pipeVars, clientVars, extVars>>

----------------------------------------------------------------------------
(* Policy engine: PolicyManager (controller/modules/policy.py) and the     *)
(* policy routes of the controller API (controller/api.py)                 *)

\* a list-valued condition that the policy does not carry
AbsentList == {"<absent>"}

\* int(conditions['dst_port']); 0 stands for a value int() rejects
ParsePort(v) ==
    CASE v = "502" -> 502
      [] v = "80"  -> 80
      [] OTHER     -> 0

\* the packet field dst_port of a packet without a transport port (None)
PortNone == 0 - 1

\* str.upper() on the protocol names of the model
Upper(v) ==
    CASE v = "tcp" -> "TCP"
      [] v = "udp" -> "UDP"
      [] OTHER     -> v

\* str(act).lower() on the action names of the model
Lower(v) ==
    CASE v = "BLOCK" -> "block"
      [] v = "Drop"  -> "drop"
      [] v = "DENY"  -> "deny"
      [] OTHER       -> v

EmptyParams == [kind |-> "empty", v |-> None]

NoConditions ==
    [src_ip |-> None, dst_ip |-> None, protocol |-> None, dst_port |-> None,
     src_mac |-> None, dst_mac |-> None,
     allowed_ips |-> AbsentList, denied_ips |-> AbsentList]

NoActions ==
    [primary_type |-> None, primary_params |-> EmptyParams,
     rate_limit |-> None, redirect_target |-> None]

\* faulty variant: the target's own address is checked
IpsToCheck_ownIp(target_id, pkt) ==
    IF target_id # None
    THEN (IF pkt.src_mac = target_id THEN {pkt.src_ip} ELSE {})
         \cup (IF pkt.dst_mac = target_id THEN {pkt.dst_ip} ELSE {})
    ELSE {pkt.src_ip, pkt.dst_ip}

\* ips_to_check of step 6: the IPs of the endpoint(s) that are not the target
IpsToCheck(target_id, pkt) ==
    IF target_id # None
    THEN (IF pkt.src_mac = target_id THEN {pkt.dst_ip} ELSE {})
         \cup (IF pkt.dst_mac = target_id THEN {pkt.src_ip} ELSE {})
    ELSE {pkt.src_ip, pkt.dst_ip}

\* `ip in lst or '*' in lst or '*.*.*.*' in lst` for some ip of ips_to_check
ListHit(lst, ips) ==
    \E ip \in ips : ip \in lst \/ "*" \in lst \/ "*.*.*.*" \in lst

\* the match flag check_packet computes for one active policy (steps 0 to 6)
Matches(policy, pkt) ==
    LET c  == policy.conditions
        t  == policy.target_id
        m0 == t # None => (pkt.src_mac = t \/ pkt.dst_mac = t)
        m1 == m0 /\ (c.src_ip # None => (pkt.src_ip # None /\ c.src_ip = pkt.src_ip))
        m2 == m1 /\ (c.dst_ip # None => (pkt.dst_ip # None /\ c.dst_ip = pkt.dst_ip))
        m3 == m2 /\ (c.protocol # None =>
                        (pkt.protocol # None /\ Upper(c.protocol) = Upper(pkt.protocol)))
        m4 == m3 /\ (c.dst_port # None =>
                        IF pkt.dst_port = PortNone THEN FALSE
                        ELSE IF ParsePort(c.dst_port) = 0 THEN TRUE
                        ELSE ParsePort(c.dst_port) = pkt.dst_port)
        m5 == m4 /\ (c.src_mac # None => c.src_mac = pkt.src_mac)
                 /\ (c.dst_mac # None => c.dst_mac = pkt.dst_mac)
        ips        == IpsToCheck(t, pkt)
        is_denied  == c.denied_ips # AbsentList /\ ListHit(c.denied_ips, ips)
        is_allowed == IF c.allowed_ips # AbsentList
                      THEN ListHit(c.allowed_ips, ips) ELSE TRUE
    IN  IF m5 /\ (c.allowed_ips # AbsentList \/ c.denied_ips # AbsentList)
        THEN is_denied \/ ~is_allowed
        ELSE m5

\* the raw action of a policy: the flat field, else actions.primary_action,
\* else 'allow'; lower-cased
RawAction(policy) ==
    LET a1 == IF policy.action # None THEN policy.action ELSE policy.actions.primary_type
    IN  Lower(IF a1 # None THEN a1 ELSE "allow")

\* the action a raw action maps to
NormalizeAction(act) ==
    IF act \in {"deny", "block", "drop"} THEN "drop"
    ELSE IF act = "throttle" THEN "throttle"
    ELSE IF act = "redirect" THEN "redirect"
    ELSE "allow"

\* action_params after the policy's action is taken (prev: the value so far)
ExtractParams(policy, prev) ==
    LET act == RawAction(policy)
        cur == IF policy.action # None THEN EmptyParams ELSE policy.actions.primary_params
    IN  IF act = "throttle"
        THEN (IF cur.kind = "rate_limit" THEN [kind |-> "rate_value", v |-> cur.v]
              ELSE IF policy.actions.rate_limit # None
                   THEN [kind |-> "rate_value", v |-> policy.actions.rate_limit]
                   ELSE cur)
        ELSE IF act = "redirect"
        THEN (IF cur.kind = "targets" THEN cur
              ELSE IF policy.actions.redirect_target # None
                   THEN [kind |-> "targets", v |-> policy.actions.redirect_target]
                   ELSE cur)
        ELSE prev

\* highest_priority = -1 before the loop
InitialHighestPriority == -1

\* (final_action, reason, action_params, highest_priority) before the loop;
\* winner is history: the position of the policy whose action was taken
CheckStart ==
    [final_action |-> "allow", reason |-> None, action_params |-> EmptyParams,
     highest_priority |-> InitialHighestPriority, winner |-> 0]

\* faulty variant: the loop does not look at the status
CheckOne_ignoresStatus(acc, policy, k, pkt) ==
    IF ~Matches(policy, pkt) THEN acc
    ELSE IF ~(policy.priority > acc.highest_priority) THEN acc
    ELSE [final_action |-> NormalizeAction(RawAction(policy)),
          reason |-> IF policy.name # None THEN policy.name ELSE policy.id,
          action_params |-> ExtractParams(policy, acc.action_params),
          highest_priority |-> policy.priority,
          winner |-> k]

\* one iteration of `for policy in self.policies.values()`
CheckOne(acc, policy, k, pkt) ==
    IF policy.status # "active" THEN acc
    ELSE IF ~Matches(policy, pkt) THEN acc
    ELSE IF ~(policy.priority > acc.highest_priority) THEN acc
    ELSE [final_action |-> NormalizeAction(RawAction(policy)),
          reason |-> IF policy.name # None THEN policy.name ELSE policy.id,
          action_params |-> ExtractParams(policy, acc.action_params),
          highest_priority |-> policy.priority,
          winner |-> k]

RECURSIVE CheckLoop(_, _, _, _)
CheckLoop(acc, pols, k, pkt) ==
    IF k > Len(pols) THEN acc
    ELSE CheckLoop(CheckOne(acc, pols[k], k, pkt), pols, k + 1, pkt)

\* PolicyManager.check_packet
check_packet(pols, pkt) == CheckLoop(CheckStart, pols, 1, pkt)

\* hosts of the model: the policy target (an HMI) and a remote station
MacA == "00:00:00:00:00:0a"
MacB == "00:00:00:00:00:0b"
IpA == "10.0.1.10"
IpB == "10.0.3.20"
HoneypotIp == "10.0.9.9"

\* packets handed to check_packet by the forwarding engine; the last one is
\* a non-IP frame (no addresses, protocol or port)
Packets ==
    { [src_mac |-> MacA, dst_mac |-> MacB, src_ip |-> IpA, dst_ip |-> IpB,
       protocol |-> "TCP", dst_port |-> 502],
      [src_mac |-> MacB, dst_mac |-> MacA, src_ip |-> IpB, dst_ip |-> IpA,
       protocol |-> "TCP", dst_port |-> 80],
      [src_mac |-> MacB, dst_mac |-> MacB, src_ip |-> IpB, dst_ip |-> IpB,
       protocol |-> "UDP", dst_port |-> 502],
      [src_mac |-> MacA, dst_mac |-> MacB, src_ip |-> None, dst_ip |-> None,
       protocol |-> None, dst_port |-> PortNone] }

Policy(name, target_id, priority, action, conditions, actions) ==
    [name |-> name, target_id |-> target_id, priority |-> priority, action |-> action,
     conditions |-> conditions, actions |-> actions]

\* policy bodies a client may POST to /policies
PlainPolicies ==
    { Policy("plain", None, pr, a, NoConditions, NoActions) :
        pr \in {0 - 2, 0, 100}, a \in {"allow", "BLOCK", "throttle"} }
    \cup { Policy("to-b", None, pr, "block", [NoConditions EXCEPT !.dst_ip = IpB], NoActions) :
             pr \in {50, 100} }

AclPolicies ==
    { Policy("acl", t, 50, "block",
             [NoConditions EXCEPT !.allowed_ips = l[1], !.denied_ips = l[2]], NoActions) :
        t \in {None, MacA},
        l \in { <<AbsentList, {IpB}>>, <<{IpB}, AbsentList>>, <<{IpB}, {IpB}>> } }
    \cup { Policy("acl-allow", t, 50, "allow",
                  [NoConditions EXCEPT !.denied_ips = {IpB}], NoActions) :
             t \in {None, MacA} }
    \cup { Policy("acl-local", MacA, 50, "block",
                  [NoConditions EXCEPT !.allowed_ips = {IpA}], NoActions) }

MatchPolicies ==
    { Policy("match", None, 10, "DENY",
             [NoConditions EXCEPT !.protocol = "tcp", !.dst_port = dp, !.src_mac = sm],
             NoActions) :
        dp \in {"502", "abc"}, sm \in {None, MacA} }

NestedPolicies ==
    { Policy(None, None, 100, None, [NoConditions EXCEPT !.src_ip = IpA],
             [NoActions EXCEPT !.primary_type = "redirect",
                               !.primary_params = [kind |-> "targets", v |-> HoneypotIp]]),
      Policy(None, None, 100, None, NoConditions,
             [NoActions EXCEPT !.primary_type = "redirect", !.redirect_target = HoneypotIp]),
      Policy("limit", None, 20, None, NoConditions,
             [NoActions EXCEPT !.primary_type = "throttle",
                               !.primary_params = [kind |-> "rate_limit", v |-> "10"]]),
      Policy("bare", None, 20, None, NoConditions, NoActions) }

\* a policy with action 'isolate', which handle_packet_in tests for
IsolatePolicies ==
    { Policy("quarantine", MacA, 100, "isolate", NoConditions, NoActions) }

\* policy_name = f"Auto-{final_action.upper()}-{flow_id[:8]}" for flow f1
AutoPolicyName(final_action) ==
    CASE final_action = "redirect" -> "Auto-REDIRECT-f1"
      [] final_action = "block"    -> "Auto-BLOCK-f1"

\* policy_def of _auto_respond_to_dangerous_flow for a flow from IpA to IpB on
\* TCP port 502: the flat action field always, and for a redirect also
\* actions.primary_action with the honeypot as its target
AutoResponsePolicy(final_action, honeypot_ip) ==
    Policy(AutoPolicyName(final_action), None, 100, final_action,
           [NoConditions EXCEPT !.src_ip = IpA, !.dst_ip = IpB,
                                !.protocol = "TCP", !.dst_port = "502"],
           IF final_action = "redirect"
           THEN [NoActions EXCEPT !.primary_type = "redirect",
                                  !.primary_params = [kind |-> "targets", v |-> honeypot_ip]]
           ELSE NoActions)

\* the bodies the auto-responder POSTs to /policies
ResponderPolicies ==
    { AutoResponsePolicy("redirect", HoneypotIp), AutoResponsePolicy("block", None) }

PolicyBodies ==
    PlainPolicies \cup AclPolicies \cup MatchPolicies \cup NestedPolicies
        \cup IsolatePolicies \cup ResponderPolicies

\* the number of policies a run of the model creates
MaxPolicies == 2

\* cp_result before any check_packet on the current policy table
NoResult ==
    [final_action |-> "none", reason |-> None, action_params |-> EmptyParams,
     highest_priority |-> InitialHighestPriority, winner |-> 0]

InitPolicy ==
    /\ cp_policies = <<>>
    /\ cp_packet = CHOOSE pkt \in Packets : pkt.dst_port = PortNone
    /\ cp_result = NoResult
    /\ flow_rules = FALSE

\* f'policy_{uuid.uuid4().hex[:8]}': a fresh id for the k-th policy created
PolicyId(k) == "policy_" \o ToString(k)

\* POST /policies: PolicyManager.create_policy gives the body an id and
\* status 'active' and stores it; clear_all_flows() deletes the flow rules
\* of every datapath (the table-miss rule it puts back is not counted)
CreatePolicy ==
    /\ Len(cp_policies) < MaxPolicies
    /\ \E body \in PolicyBodies :
          cp_policies' = Append(cp_policies,
              [id |-> PolicyId(Len(cp_policies) + 1), status |-> "active", name |-> body.name,
               target_id |-> body.target_id, priority |-> body.priority,
               action |-> body.action, conditions |-> body.conditions,
               actions |-> body.actions])
    /\ cp_result' = NoResult
    /\ flow_rules' = FALSE
    /\ UNCHANGED <<cp_packet, respVars, ringVars, pipeVars, clientVars, extVars>>

\* POST /policies/{id}/revoke: update_policy(id, {'status': 'inactive'})
RevokePolicy ==
    /\ \E k \in 1..Len(cp_policies) :
          cp_policies' = [cp_policies EXCEPT ![k].status = "inactive"]
    /\ cp_result' = NoResult
    /\ UNCHANGED <<cp_packet, flow_rules, respVars, ringVars, pipeVars, clientVars, extVars>>

\* POST /policies/{id}/apply: update_policy(id, {'status': 'active'})
ApplyPolicy ==
    /\ \E k \in 1..Len(cp_policies) :
          cp_policies' = [cp_policies EXCEPT ![k].status = "active"]
    /\ cp_result' = NoResult
    /\ UNCHANGED <<cp_packet, flow_rules, respVars, ringVars, pipeVars, clientVars, extVars>>

\* the forwarding engine asks for the verdict on a packet
CheckPacket ==
    /\ \E pkt \in Packets :
          /\ cp_packet' = pkt
          /\ cp_result' = check_packet(cp_policies, pkt)
    /\ UNCHANGED <<cp_policies, flow_rules, respVars, ringVars, pipeVars, clientVars, extVars>>

----------------------------------------------------------------------------
(* Forwarding: ForwardingEngine.handle_packet_in, _flood, _shortest_path   *)
(* (controller/modules/forwarding.py)                                      *)

\* if action == 'drop' or action == 'isolate': return
DropsPacket(action) == action \in {"drop", "isolate"}

\* pkt_in before any packet-in; raw is the lower-cased action of the policy
\* whose verdict check_packet returned (None when no policy matched)
NoPacketIn ==
    [handled |-> FALSE, raw |-> None, action |-> "none", fate |-> "none",
     flow_rule |-> FALSE]

InitFwd == pkt_in = NoPacketIn

\* handle_packet_in for a frame that is not LLDP or IPv6 multicast:
\* dst_known: dst is a unicast address in topology.host_location;
\* path_ok: nx.shortest_path finds a path to the destination switch
HandlePacketIn ==
    /\ \E pkt \in Packets, dst_known \in BOOLEAN, path_ok \in BOOLEAN :
          LET verdict == check_packet(cp_policies, pkt)
              action  == verdict.final_action
              routed  == dst_known /\ path_ok
          IN  /\ cp_packet' = pkt
              /\ cp_result' = verdict
              /\ pkt_in' =
                    [handled |-> TRUE,
                     raw |-> IF verdict.winner = 0 THEN None
                             ELSE RawAction(cp_policies[verdict.winner]),
                     action |-> action,
                     fate |-> IF DropsPacket(action) THEN "dropped"
                              ELSE IF routed THEN "forwarded" ELSE "flooded",
                     flow_rule |-> ~DropsPacket(action) /\ routed]
              /\ flow_rules' = (flow_rules \/ (~DropsPacket(action) /\ routed))
    /\ UNCHANGED <<cp_policies, respVars, ringVars, pipeVars, clientVars,
                   levelVars, subVars, lifeVars, queryVars, stopVars, fnVars>>

\* add_flow(..., idle_timeout=20): the switch removes a rule no packet has
\* used for 20 s; the step is the expiry of the last rule left
FlowIdleTimeout ==
    /\ flow_rules
    /\ flow_rules' = FALSE
    /\ UNCHANGED <<cp_policies, cp_packet, cp_result, respVars, ringVars, pipeVars,
                   clientVars, extVars>>

----------------------------------------------------------------------------
(* Detection pipeline: handle_flow_event, _batcher_loop, _process_batch,   *)
(* _sync_flow_to_db (flow_detection.py)                                    *)

\* QUEUE_MAX_SIZE is 10_000, BATCH_SIZE 64, WORKER_COUNT 4 and max_retries 5
\* in the source; the model scales them down
QUEUE_MAX_SIZE == 2

BATCH_SIZE == 2

WORKER_COUNT == 2

max_retries == 2

\* the number of flow_update events a run of the model delivers
MaxEvents == QUEUE_MAX_SIZE + 1

Workers == 1..WORKER_COUNT

\* flow snapshots the controller sends (the ingestion fields of the row);
\* rate stands for the statistics the model's answer depends on
Payloads ==
    { [rate |-> "burst", blocked |-> FALSE],
      [rate |-> "flood", blocked |-> TRUE],
      [rate |-> "exfil", blocked |-> TRUE] }

NoFlow == [rate |-> None, blocked |-> FALSE]

\* the flow_update events of the model: one without flow_id/id, flow f1 as
\* a burst or as a flood, flow f2 as an exfiltration
FlowEvents ==
    { [flow_id |-> None, flow |-> NoFlow] }
    \cup { [flow_id |-> "f1", flow |-> p] : p \in {q \in Payloads : q.rate # "exfil"} }
    \cup { [flow_id |-> "f2", flow |-> p] : p \in {q \in Payloads : q.rate = "exfil"} }

NoRow ==
    [exists |-> FALSE, flow |-> NoFlow, detect_status |-> None, decision_level |-> None,
     prob |-> 0, anomaly_score |-> 0, detected_at |-> None]

\* InferenceService.predict_flow is a function of the flow
Predict(flow) ==
    CASE flow.rate = "exfil" -> "redirect"
      [] flow.rate = "flood" -> "block"
      [] flow.rate = "burst" -> "throttle"
      [] OTHER               -> "normal"

\* the probability of the result, in hundredths; anomaly_score is the same number
PredictProb(flow) ==
    CASE flow.rate = "exfil" -> 90
      [] flow.rate = "flood" -> 80
      [] flow.rate = "burst" -> 60
      [] OTHER               -> 0

\* faulty variant: every level whose status is dangerous starts a responder
SpawnLevels_dangerous == {"throttle", "block", "redirect"}

\* if decision_level in [DecisionLevel.REDIRECT.value, DecisionLevel.BLOCK.value]
SpawnLevels == {"redirect", "block"}

\* faulty variant: throttle is reported as suspicious
_map_decision_to_status_throttleSuspicious(level) ==
    IF level = "normal" THEN "safe"
    ELSE IF level \in {"alert", "throttle"} THEN "suspicious"
    ELSE IF level \in {"block", "redirect"} THEN "dangerous"
    ELSE "error"

_map_decision_to_status(level) ==
    IF level = "normal" THEN "safe"
    ELSE IF level = "alert" THEN "suspicious"
    ELSE IF level \in {"throttle", "block", "redirect"} THEN "dangerous"
    ELSE "error"

\* f"log_{flow_id}_{'block' if is_blocked else 'redirect'}"
LogKey(flow_id, kind) ==
    CASE flow_id = "f1" /\ kind = "block"    -> "log_f1_block"
      [] flow_id = "f1" /\ kind = "redirect" -> "log_f1_redirect"
      [] flow_id = "f2" /\ kind = "block"    -> "log_f2_block"
      [] OTHER                               -> "log_f2_redirect"

\* faulty variant: put() on a queue without maxsize
QueuePut_unbounded(q, task) == Append(q, task)

\* _task_queue.put_nowait(task); except queue.Full: the task is dropped
QueuePut(q, task) == IF Len(q) < QUEUE_MAX_SIZE THEN Append(q, task) ELSE q

\* faulty variant: the dict keeps the first task of a flow_id
RECURSIVE UniqueTasks_keepFirst(_)
UniqueTasks_keepFirst(tasks) ==
    IF tasks = <<>> THEN <<>>
    ELSE LET rest == UniqueTasks_keepFirst(SubSeq(tasks, 1, Len(tasks) - 1))
             t    == tasks[Len(tasks)]
         IN  IF \E k \in 1..Len(rest) : rest[k].flow_id = t.flow_id
             THEN rest
             ELSE Append(rest, t)

\* list({t.flow_id: t for t in tasks}.values()): a flow_id keeps the place
\* of its first task and the value of its last
RECURSIVE UniqueTasks(_)
UniqueTasks(tasks) ==
    IF tasks = <<>> THEN <<>>
    ELSE LET rest == UniqueTasks(SubSeq(tasks, 1, Len(tasks) - 1))
             t    == tasks[Len(tasks)]
         IN  IF \E k \in 1..Len(rest) : rest[k].flow_id = t.flow_id
             THEN [k \in 1..Len(rest) |->
                      IF rest[k].flow_id = t.flow_id THEN t ELSE rest[k]]
             ELSE Append(rest, t)

\* faulty variant: the upsert writes the defaults on a row it finds
_sync_flow_to_db_resetsStatus(found, row, task, insert_ok) ==
    IF found \/ row.exists \/ insert_ok
    THEN [exists |-> TRUE, flow |-> task.flow,
          detect_status |-> "pending", decision_level |-> "normal",
          prob |-> 0, anomaly_score |-> 0, detected_at |-> None]
    ELSE NoRow

\* _sync_flow_to_db: the row the upsert returns.  found is whether its first
\* query saw a row of the flow_id, row is the committed row of the flow_id
\* when the insert is flushed, insert_ok is whether the savepoint insert of
\* an unseen flow_id goes through.  When the insert fails the function
\* returns what a second query finds: the row another session has committed
\* since the first query, as it is, or None.
_sync_flow_to_db(found, row, task, insert_ok) ==
    IF found
    THEN [row EXCEPT !.flow = task.flow]
    ELSE IF ~row.exists /\ insert_ok
         THEN [exists |-> TRUE, flow |-> task.flow,
               detect_status |-> "pending", decision_level |-> "normal",
               prob |-> 0, anomaly_score |-> 0, detected_at |-> None]
         ELSE row

\* the detection fields _process_batch writes on the row
UpdateDetection(row, task, error) ==
    IF error
    THEN [row EXCEPT !.detect_status = "error", !.decision_level = "normal",
                     !.prob = 0, !.anomaly_score = 0, !.detected_at = "now"]
    ELSE [row EXCEPT !.detect_status = _map_decision_to_status(Predict(task.flow)),
                     !.decision_level = Predict(task.flow),
                     !.prob = PredictProb(task.flow),
                     !.anomaly_score = PredictProb(task.flow),
                     !.detected_at = "now"]

\* the FlowDetectionLog row of a task (batch is history)
DetLog(task, error, b) ==
    [flow_id |-> task.flow_id, payload_snapshot |-> task.flow,
     decision_level |-> IF error THEN "normal" ELSE Predict(task.flow),
     batch |-> b]

\* the parameters of record_event_for_ui; _process_batch passes session=
RecordEventParams == {"event"}

PipeHistory0 ==
    [events |-> 0, dropped |-> 0, failures |-> FALSE,
     last_accepted |-> [f \in Flows |-> NoFlow],
     batches |-> <<>>,
     last_spawned |-> {}]

InitPipe ==
    /\ task_queue = <<>>
    /\ batcher = [pc |-> "wait", tasks |-> <<>>]
    /\ exec_queue = <<>>
    /\ workers = [w \in Workers |-> [pc |-> "idle", batch |-> 0, unique |-> <<>>,
                                     error |-> FALSE, attempt |-> 0]]
    /\ db_rows = [f \in Flows |-> NoRow]
    /\ det_logs = <<>>
    /\ pipe = PipeHistory0

\* handle_flow_event for a flow_update event: automation log of a blocked
\* flow (once per flow: the key goes into _responded_flows), then the enqueue
HandleFlowEvent ==
    /\ pipe.events < MaxEvents
    /\ \E ev \in FlowEvents :
         LET fid == ev.flow_id  flow == ev.flow IN
         IF fid = None
         THEN /\ pipe' = [pipe EXCEPT !.events = @ + 1]
              /\ UNCHANGED <<task_queue, responded_flows, ringVars>>
         ELSE LET task == [flow_id |-> fid, flow |-> flow, n |-> pipe.events + 1]
                  key  == LogKey(fid, "block")
                  full == Len(task_queue) >= QUEUE_MAX_SIZE
              IN  /\ IF flow.blocked /\ key \notin responded_flows
                     THEN /\ responded_flows' = responded_flows \cup {key}
                          /\ IF "TRAFFIC_BLOCK" \in EventTypeMembers
                             THEN \E persist_ok \in BOOLEAN :
                                     RecordEventForUi("TRAFFIC_BLOCK", "plain", fid, persist_ok)
                             ELSE UNCHANGED ringVars
                     ELSE UNCHANGED <<responded_flows, ringVars>>
                  /\ task_queue' = QueuePut(task_queue, task)
                  /\ pipe' = [pipe EXCEPT
                                !.events = @ + 1,
                                !.dropped = IF full THEN @ + 1 ELSE @,
                                !.last_accepted[fid] = IF full THEN @ ELSE flow]
    /\ UNCHANGED <<batcher, exec_queue, workers, db_rows, det_logs,
                   ar, policies, policyVars, clientVars, extVars>>

\* first = _task_queue.get(timeout=1.0)
BatcherGetFirst ==
    /\ batcher.pc = "wait"
    /\ task_queue # <<>>
    /\ batcher' = [pc |-> "fill", tasks |-> <<Head(task_queue)>>]
    /\ task_queue' = Tail(task_queue)
    /\ UNCHANGED <<exec_queue, workers, db_rows, det_logs, pipe,
                   respVars, ringVars, policyVars, clientVars, extVars>>

\* faulty variant: the fill loop does not stop at BATCH_SIZE
BatcherGetNext_unbounded ==
    /\ batcher.pc = "fill"
    /\ task_queue # <<>>
    /\ batcher' = [batcher EXCEPT !.tasks = Append(@, Head(task_queue))]
    /\ task_queue' = Tail(task_queue)
    /\ UNCHANGED <<exec_queue, workers, db_rows, det_logs, pipe,
                   respVars, ringVars, policyVars, clientVars, extVars>>

\* while len(tasks) < BATCH_SIZE: tasks.append(_task_queue.get_nowait())
BatcherGetNext ==
    /\ batcher.pc = "fill"
    /\ Len(batcher.tasks) < BATCH_SIZE
    /\ task_queue # <<>>
    /\ batcher' = [batcher EXCEPT !.tasks = Append(@, Head(task_queue))]
    /\ task_queue' = Tail(task_queue)
    /\ UNCHANGED <<exec_queue, workers, db_rows, det_logs, pipe,
                   respVars, ringVars, policyVars, clientVars, extVars>>

\* the batch is full or get_nowait raised queue.Empty:
\* _executor.submit(_process_batch, tasks)
BatcherSubmit ==
    /\ batcher.pc = "fill"
    /\ Len(batcher.tasks) >= BATCH_SIZE \/ task_queue = <<>>
    /\ exec_queue' = Append(exec_queue, Len(pipe.batches) + 1)
    /\ pipe' = [pipe EXCEPT !.batches = Append(@,
                   [tasks |-> batcher.tasks, state |-> "submitted",
                    attempts |-> 0, skipped |-> {},
                    last_outcome |-> None, slept |-> <<>>])]
    /\ batcher' = [pc |-> "wait", tasks |-> <<>>]
    /\ UNCHANGED <<task_queue, workers, db_rows, det_logs,
                   respVars, ringVars, policyVars, clientVars, extVars>>

\* a pool worker starts _process_batch: de-duplication and predict_batch
\* (error: predict_batch raised)
WorkerTake(w) ==
    /\ workers[w].pc = "idle"
    /\ exec_queue # <<>>
    /\ \E error \in BOOLEAN :
          workers' = [workers EXCEPT ![w] =
              [pc |-> "txn", batch |-> Head(exec_queue),
               unique |-> UniqueTasks(pipe.batches[Head(exec_queue)].tasks),
               error |-> error, attempt |-> 0]]
          /\ pipe' = [pipe EXCEPT !.batches[Head(exec_queue)].state = "running"]
    /\ exec_queue' = Tail(exec_queue)
    /\ UNCHANGED <<task_queue, batcher, db_rows, det_logs,
                   respVars, ringVars, policyVars, clientVars, extVars>>

\* the rows and detection logs one pass over unique_tasks leaves in the session
\* (skip: the flow_ids whose insert fails, so that the row is None)
\* what the first query of a task's upsert saw: the queries of a pass see
\* the committed rows, except that the first one ran before the pass took
\* the write lock (pc "write": it found no row then)
Found(w, f) ==
    /\ db_rows[f].exists
    /\ ~(workers[w].pc = "write" /\ workers[w].unique[1].flow_id = f)

SessionRows(w, skip) ==
    [f \in Flows |->
        IF \E k \in 1..Len(workers[w].unique) : workers[w].unique[k].flow_id = f
        THEN LET t   == workers[w].unique[CHOOSE k \in 1..Len(workers[w].unique) :
                                           workers[w].unique[k].flow_id = f]
                 row == _sync_flow_to_db(Found(w, f), db_rows[f], t, f \notin skip)
             IN  IF row.exists THEN UpdateDetection(row, t, workers[w].error)
                 ELSE db_rows[f]
        ELSE db_rows[f]]

RECURSIVE SessionLogs(_, _, _, _)
SessionLogs(tasks, skip, error, b) ==
    IF tasks = <<>> THEN <<>>
    ELSE LET t == Head(tasks)
             row == _sync_flow_to_db(db_rows[t.flow_id].exists, db_rows[t.flow_id],
                                     t, t.flow_id \notin skip)
         IN  (IF row.exists THEN <<DetLog(t, error, b)>> ELSE <<>>)
             \o SessionLogs(Tail(tasks), skip, error, b)

\* the responder threads one pass starts over the first `done` tasks: a
\* thread per task with a row whose decision is redirect or block, started
\* before the transaction commits
SpawnedBy(w, skip, done) ==
    { [flow_id |-> workers[w].unique[k].flow_id,
       decision_level |-> DetLog(workers[w].unique[k], workers[w].error, 0).decision_level] :
      k \in {j \in 1..done :
               /\ _sync_flow_to_db(db_rows[workers[w].unique[j].flow_id].exists,
                                   db_rows[workers[w].unique[j].flow_id],
                                   workers[w].unique[j],
                                   workers[w].unique[j].flow_id \notin skip).exists
               /\ DetLog(workers[w].unique[j], workers[w].error, 0).decision_level
                      \in SpawnLevels} }

\* record_event_for_ui(det_event, session=session) for every task with a row
RECURSIVE SessionEvents(_, _, _)
SessionEvents(st, tasks, skip) ==
    IF tasks = <<>> THEN st
    ELSE LET t   == Head(tasks)
             row == _sync_flow_to_db(db_rows[t.flow_id].exists, db_rows[t.flow_id],
                                     t, t.flow_id \notin skip)
         IN  SessionEvents(IF row.exists
                           THEN Recorded(st, "FLOW_DETECTION", "plain", t.flow_id, TRUE)
                           ELSE st,
                           Tail(tasks), skip)

\* retry_delay = 0.1, in milliseconds
retry_delay == 100

\* time.sleep(retry_delay * (2 ** attempt))
Backoff(attempt) == retry_delay * 2^attempt

\* faulty variant: every failed attempt is retried while attempts remain
ShouldRetry_anyError(outcome, attempt) ==
    outcome # "commit" /\ attempt < max_retries - 1

\* if "database is locked" in str(e) and attempt < max_retries - 1
ShouldRetry(outcome, attempt) ==
    outcome = "locked" /\ attempt < max_retries - 1

\* the first query of a pass finds no row of the first task's flow_id
FirstAbsent(w) ==
    /\ workers[w].unique # <<>>
    /\ ~db_rows[workers[w].unique[1].flow_id].exists

\* an attempt of the write-back begins: session_scope opens the session and
\* the upsert of the first task runs its query and finds no row (the session
\* holds no lock yet, so other workers may commit before this pass writes; a
\* query that finds the row is part of WorkerTxn, rows being never deleted)
WorkerQuery(w) ==
    /\ workers[w].pc = "txn"
    /\ FirstAbsent(w)
    /\ workers' = [workers EXCEPT ![w].pc = "write"]
    /\ UNCHANGED <<task_queue, batcher, exec_queue, db_rows, det_logs, pipe,
                   respVars, ringVars, policyVars, clientVars, extVars>>

\* one attempt of the write-back transaction of _process_batch: the pass over
\* unique_tasks in one session, then commit, or rollback on an exception
\* ("locked": 'database is locked', retried while attempts remain); an
\* exception leaves the pass after `done` tasks (all of them when the commit
\* raises); last_spawned is history
WorkerTxn(w) ==
    /\ \/ workers[w].pc = "write"
       \/ workers[w].pc = "txn" /\ ~FirstAbsent(w)
    /\ \E outcome \in {"commit", "locked", "error"},
          skip \in SUBSET {f \in Flows : ~db_rows[f].exists},
          done \in 0..Len(workers[w].unique) :
         LET b     == workers[w].batch
             retry == ShouldRetry(outcome, workers[w].attempt)
             state == IF outcome = "commit" THEN "committed"
                      ELSE IF retry THEN "running" ELSE "abandoned"
         IN  /\ skip \subseteq {workers[w].unique[k].flow_id : k \in 1..done}
             /\ outcome = "commit" => done = Len(workers[w].unique)
             /\ IF outcome = "commit"
                THEN /\ db_rows' = SessionRows(w, skip)
                     /\ det_logs' = det_logs \o
                           SessionLogs(workers[w].unique, skip, workers[w].error, b)
                ELSE UNCHANGED <<db_rows, det_logs>>
             /\ workers' = [workers EXCEPT ![w] =
                   IF retry THEN [@ EXCEPT !.pc = "txn", !.attempt = @ + 1]
                   ELSE [pc |-> "idle", batch |-> 0, unique |-> <<>>,
                         error |-> FALSE, attempt |-> 0]]
             /\ pipe' = [pipe EXCEPT
                   !.batches[b].state = state,
                   !.batches[b].attempts = @ + 1,
                   !.batches[b].skipped = IF outcome = "commit" THEN skip ELSE @,
                   !.batches[b].last_outcome = outcome,
                   !.batches[b].slept = IF retry
                                           THEN Append(@, Backoff(workers[w].attempt))
                                           ELSE @,
                   !.failures = @ \/ outcome # "commit" \/ skip # {},
                   !.last_spawned = SpawnedBy(w, skip, done)]
             /\ IF "session" \in RecordEventParams
                THEN SetRing(SessionEvents(RingState, workers[w].unique, skip))
                ELSE UNCHANGED ringVars
    /\ UNCHANGED <<task_queue, batcher, exec_queue,
                   respVars, policyVars, clientVars, extVars>>

----------------------------------------------------------------------------
(* Controller REST client: ControllerClient (controller_client.py)         *)

ClientThreads == {"t1", "t2"}

\* the number of token pairs the controller issues in a run of the model
MaxTokens == 3

\* the refresh margin of ensure_token, in seconds
TokenMargin == 60

\* expires_in of a token response (the client defaults it to 3600 when the
\* body has none), and the clock readings of the model, in seconds
ExpiresInChoices == {30, 3600}

ClockValues == {0, 3540}

NoToken == [id |-> 0, expires_at |-> 0]

\* faulty variant: the token is used until it expires, without the margin
TokenStillValid_noMargin(tok, t) == tok.expires_at > t

\* self._token.expires_at > time.time() + 60
TokenStillValid(tok, t) == tok.expires_at > t + TokenMargin

ClIdle ==
    [pc |-> "idle", phase |-> 1, hdr |-> NoToken, checked_at |-> 0,
     newtok |-> NoToken, after_store |-> "none", sent |-> <<>>,
     renewals |-> 0, renewed_after_401 |-> FALSE, status |-> 0]

InitClient ==
    /\ token = NoToken
    /\ now = 0
    /\ token_lock = "free"
    /\ cl = [t \in ClientThreads |-> ClIdle]
    /\ issued = 0

\* time passes
Tick ==
    /\ \E v \in ClockValues : v > now /\ now' = v
    /\ UNCHANGED <<token, token_lock, cl, issued,
                   respVars, ringVars, policyVars, pipeVars, extVars>>

\* a caller enters _request(method, path) with auth=True, retry_on_401=True
ClCall(t) ==
    /\ cl[t].pc \in {"idle", "returned", "raised"}
    /\ cl' = [cl EXCEPT ![t] = [ClIdle EXCEPT !.pc = "ensure"]]
    /\ UNCHANGED <<token, now, token_lock, issued,
                   respVars, ringVars, policyVars, pipeVars, extVars>>

\* ensure_token, the block under _token_lock: no token -> fall through to
\* get_token; a token outside the margin -> return it; otherwise
\* self.refresh_token() is called with the lock held, and refresh_token
\* acquires the same non-reentrant lock: the thread blocks for good
ClEnsure(t) ==
    /\ cl[t].pc = "ensure"
    /\ token_lock = "free"
    /\ IF token = NoToken
       THEN /\ cl' = [cl EXCEPT ![t].pc = "get_token", ![t].after_store = "ensure_ret"]
            /\ UNCHANGED token_lock
       ELSE IF TokenStillValid(token, now)
       THEN /\ cl' = [cl EXCEPT ![t].pc = "send", ![t].hdr = token, ![t].checked_at = now]
            /\ UNCHANGED token_lock
       ELSE /\ cl' = [cl EXCEPT ![t].pc = "deadlock"]
            /\ token_lock' = t
    /\ UNCHANGED <<token, now, issued, respVars, ringVars, policyVars, pipeVars, extVars>>

\* get_token: POST /auth/token; an error status raises out of the caller
ClGetToken(t) ==
    /\ cl[t].pc = "get_token"
    /\ \/ /\ cl' = [cl EXCEPT ![t].pc = "raised", ![t].renewals = @ + 1]
          /\ UNCHANGED issued
       \/ /\ issued < MaxTokens
          /\ \E e \in ExpiresInChoices :
               cl' = [cl EXCEPT ![t].pc = "store", ![t].renewals = @ + 1,
                                ![t].newtok = [id |-> issued + 1, expires_at |-> now + e]]
          /\ issued' = issued + 1
    /\ UNCHANGED <<token, now, token_lock, respVars, ringVars, policyVars, pipeVars, extVars>>

\* with self._token_lock: self._token = token (get_token and refresh_token)
ClStore(t) ==
    /\ cl[t].pc = "store"
    /\ token_lock = "free"
    /\ token' = cl[t].newtok
    /\ cl' = [cl EXCEPT ![t].pc = cl[t].after_store,
                        ![t].renewed_after_401 = @ \/ cl[t].phase = 2]
    /\ UNCHANGED <<now, token_lock, issued, respVars, ringVars, policyVars, pipeVars, extVars>>

\* ensure_token after get_token: with lock: if self._token: return it
ClEnsureRet(t) ==
    /\ cl[t].pc = "ensure_ret"
    /\ token_lock = "free"
    /\ IF token # NoToken
       THEN cl' = [cl EXCEPT ![t].pc = "send", ![t].hdr = token, ![t].checked_at = now]
       ELSE cl' = [cl EXCEPT ![t].pc = "raised"]
    /\ UNCHANGED <<token, now, token_lock, issued,
                   respVars, ringVars, policyVars, pipeVars, extVars>>

\* resp = requests.request(method, url, **kwargs) and what follows it: on the
\* first 401 the renewal starts, otherwise _raise_for_status decides
ClSend(t) ==
    /\ cl[t].pc = "send"
    /\ \E status \in {200, 401, 500} :
         LET req == [token |-> cl[t].hdr.id, expires_at |-> cl[t].hdr.expires_at,
                     checked_at |-> cl[t].checked_at, renewals |-> cl[t].renewals,
                     issued_before |-> issued]
         IN  cl' = [cl EXCEPT
                     ![t].sent = Append(@, req),
                     ![t].status = status,
                     ![t].phase = IF status = 401 /\ cl[t].phase = 1 THEN 2 ELSE @,
                     ![t].pc = IF status = 401 /\ cl[t].phase = 1 THEN "refresh_read"
                               ELSE IF status = 200 THEN "returned" ELSE "raised"]
    /\ UNCHANGED <<token, now, token_lock, issued,
                   respVars, ringVars, policyVars, pipeVars, extVars>>

\* refresh_token, reading the refresh token under the lock; without a token
\* it raises AuthenticationError, which _request answers with get_token
ClRefreshRead(t) ==
    /\ cl[t].pc = "refresh_read"
    /\ token_lock = "free"
    /\ IF token = NoToken
       THEN cl' = [cl EXCEPT ![t].pc = "get_token", ![t].after_store = "ensure"]
       ELSE cl' = [cl EXCEPT ![t].pc = "refresh_http"]
    /\ UNCHANGED <<token, now, token_lock, issued,
                   respVars, ringVars, policyVars, pipeVars, extVars>>

\* refresh_token: GET /auth/refresh; on an error _request calls get_token
ClRefreshHttp(t) ==
    /\ cl[t].pc = "refresh_http"
    /\ \/ /\ cl' = [cl EXCEPT ![t].pc = "get_token", ![t].after_store = "ensure",
                              ![t].renewals = @ + 1]
          /\ UNCHANGED issued
       \/ /\ issued < MaxTokens
          /\ \E e \in ExpiresInChoices :
               cl' = [cl EXCEPT ![t].pc = "store", ![t].after_store = "ensure",
                                ![t].renewals = @ + 1,
                                ![t].newtok = [id |-> issued + 1, expires_at |-> now + e]]
          /\ issued' = issued + 1
    /\ UNCHANGED <<token, now, token_lock, respVars, ringVars, policyVars, pipeVars, extVars>>

----------------------------------------------------------------------------
(* Decision levels: ThresholdConfig and InferenceService.predict_flow      *)
(* (inference.py), and the status _process_batch derives from the level    *)

\* probabilities the classifier returns, in hundredths
ProbValues == {0, 30, 60, 80, 90}

\* values a thresholds file may give a threshold, in hundredths (110: above every
\* probability); from_dict takes them as they are, in any order
ThresholdValues == ProbValues \cup {110}

\* ThresholdConfig(): alert 0.3, throttle 0.6, block 0.8, redirect 0.9
DefaultThresholds == [alert |-> 30, throttle |-> 60, block |-> 80, redirect |-> 90]

\* faulty variant: the cascade tests the thresholds from alert upwards
get_decision_level_lowestFirst(cfg, prob) ==
    IF prob >= cfg.alert THEN "alert"
    ELSE IF prob >= cfg.throttle THEN "throttle"
    ELSE IF prob >= cfg.block THEN "block"
    ELSE IF prob >= cfg.redirect THEN "redirect"
    ELSE "normal"

\* ThresholdConfig.get_decision_level
get_decision_level(cfg, prob) ==
    IF prob >= cfg.redirect THEN "redirect"
    ELSE IF prob >= cfg.block THEN "block"
    ELSE IF prob >= cfg.throttle THEN "throttle"
    ELSE IF prob >= cfg.alert THEN "alert"
    ELSE "normal"

InitLevel ==
    /\ thresholds = DefaultThresholds
    /\ decisions = {}

\* InferenceService.load: self._threshold_config = ThresholdConfig.from_dict(data);
\* init_inference_service calls it at application start, before any flow is
\* predicted
LoadThresholds ==
    /\ decisions = {}
    /\ \E cfg \in [alert : ThresholdValues, throttle : ThresholdValues,
                   block : ThresholdValues, redirect : ThresholdValues] :
          thresholds' = cfg
    /\ decisions' = {}
    /\ UNCHANGED <<coreVars, subVars, lifeVars, queryVars, fwdVars, stopVars, fnVars>>

\* a field the flow dict does not have (flow.get gives None)
Absent == 0 - 1

\* the fields of a flow that the rules of predict_flow read: pkt_rate in
\* packets per second, func_code_entropy in hundredths, reg_addr_std, and
\* pkt_count; the values lie on both sides of the rules' limits
FlowFeatures ==
    [pkt_rate : {Absent, 2, 5, 1000, 1001},
     func_code_entropy : {Absent, 5, 10},
     reg_addr_std : {Absent, 4, 5},
     pkt_count : {Absent, 10}]

\* pf before any call
NoPrediction ==
    [called |-> FALSE, flow |-> [pkt_rate |-> Absent, func_code_entropy |-> Absent,
                                 reg_addr_std |-> Absent, pkt_count |-> Absent],
     prob |-> 0, label |-> None, anomaly_score |-> 0, decision_level |-> None,
     via |-> None, rule |-> None]

\* faulty variant: the missing-count rule is tried before the low-rate rule
predict_flow_countRuleFirst(cfg, flow, p, raises) ==
    LET func_entropy == IF flow.func_code_entropy = Absent THEN 0 ELSE flow.func_code_entropy
        reg_std      == IF flow.reg_addr_std = Absent THEN 0 ELSE flow.reg_addr_std
        answer(prob, label, score, level, via, rule) ==
            [called |-> TRUE, flow |-> flow, prob |-> prob, label |-> label,
             anomaly_score |-> score, decision_level |-> level, via |-> via, rule |-> rule]
    IN  IF flow.pkt_count = Absent /\ ~(flow.pkt_rate # Absent /\ flow.pkt_rate > 1000)
        THEN answer(0, "Normal", 0, "normal", "whitelist", "no_count")
        ELSE IF /\ flow.pkt_rate # Absent /\ flow.pkt_rate < 5
                /\ func_entropy < 10 /\ reg_std < 5
        THEN answer(1, "Normal", 0, "normal", "whitelist", "low_rate")
        ELSE IF raises
        THEN answer(0, "Error", 0, "normal", "raise", "none")
        ELSE answer(p, "Model", p, get_decision_level(cfg, p), "model", "none")

\* InferenceService.predict_flow with a loaded model: the low-rate rule
\* (prob 0.01), the missing-count rule (prob 0), then the classifier, which
\* returns probability p or raises (the except branch answers "Error")
predict_flow(cfg, flow, p, raises) ==
    LET func_entropy == IF flow.func_code_entropy = Absent THEN 0 ELSE flow.func_code_entropy
        reg_std      == IF flow.reg_addr_std = Absent THEN 0 ELSE flow.reg_addr_std
        answer(prob, label, score, level, via, rule) ==
            [called |-> TRUE, flow |-> flow, prob |-> prob, label |-> label,
             anomaly_score |-> score, decision_level |-> level, via |-> via, rule |-> rule]
    IN  IF /\ flow.pkt_rate # Absent /\ flow.pkt_rate < 5
           /\ func_entropy < 10 /\ reg_std < 5
        THEN answer(1, "Normal", 0, "normal", "whitelist", "low_rate")
        ELSE IF flow.pkt_count = Absent /\ ~(flow.pkt_rate # Absent /\ flow.pkt_rate > 1000)
        THEN answer(0, "Normal", 0, "normal", "whitelist", "no_count")
        ELSE IF raises
        THEN answer(0, "Error", 0, "normal", "raise", "none")
        ELSE answer(p, "Model", p, get_decision_level(cfg, p), "model", "none")

InitPredict == pf = NoPrediction

\* one flow for each way through predict_flow: answered by the low-rate
\* rule, answered by the missing-count rule, passed to the classifier
LevelFlows ==
    { [pkt_rate |-> 2, func_code_entropy |-> 5, reg_addr_std |-> 4, pkt_count |-> 10],
      [pkt_rate |-> 1000, func_code_entropy |-> 10, reg_addr_std |-> 5, pkt_count |-> Absent],
      [pkt_rate |-> 1001, func_code_entropy |-> 10, reg_addr_std |-> 5, pkt_count |-> 10] }

\* predict_flow for one flow, and the status _process_batch writes for it
PredictFlow ==
    /\ \E flow \in LevelFlows, p \in ProbValues, raises \in BOOLEAN :
          LET r == predict_flow(thresholds, flow, p, raises)
          IN  /\ raises => p = 0
              /\ decisions' = decisions \cup
                 { [prob |-> r.prob, via |-> r.via, decision_level |-> r.decision_level,
                    detect_status |-> _map_decision_to_status(r.decision_level)] }
    /\ thresholds' = thresholds
    /\ UNCHANGED <<coreVars, subVars, lifeVars, queryVars, fwdVars, stopVars, fnVars>>

\* one call of predict_flow, kept with its flow
PredictOne ==
    /\ \E flow \in FlowFeatures, p \in ProbValues, raises \in BOOLEAN :
          pf' = predict_flow(thresholds, flow, p, raises)
    /\ UNCHANGED <<mt, coreVars, levelVars, subVars, lifeVars, queryVars, fwdVars, stopVars>>

----------------------------------------------------------------------------
(* The meter of a throttle rule: ForwardingEngine._shortest_path               *)
(* (forwarding.py)                                                          *)

\* the flows the model meters
MaxSigs == 6

\* & 0xFFFF
Mask16 == 65535

\* flow_sig.encode() of f"{src}-{dst}-{datapath.id}", as bytes
FlowSig(k) ==
    \* 00:00:00:00:00:01-00:00:00:00:00:02-1
    IF k = 1
    THEN <<48, 48, 58, 48, 48, 58, 48, 48, 58, 48, 48, 58, 48, 48, 58, 48, 49, 45, 48, 48, 58, 48, 48, 58, 48, 48, 58, 48, 48, 58, 48, 48, 58, 48, 50, 45, 49>>
    \* 00:00:00:00:00:02-00:00:00:00:00:01-1
    ELSE IF k = 2
    THEN <<48, 48, 58, 48, 48, 58, 48, 48, 58, 48, 48, 58, 48, 48, 58, 48, 50, 45, 48, 48, 58, 48, 48, 58, 48, 48, 58, 48, 48, 58, 48, 48, 58, 48, 49, 45, 49>>
    \* 00:00:00:00:00:0a-00:00:00:00:00:0b-1
    ELSE IF k = 3
    THEN <<48, 48, 58, 48, 48, 58, 48, 48, 58, 48, 48, 58, 48, 48, 58, 48, 97, 45, 48, 48, 58, 48, 48, 58, 48, 48, 58, 48, 48, 58, 48, 48, 58, 48, 98, 45, 49>>
    \* 00:00:00:00:00:d9-00:00:00:00:00:c8-1
    ELSE IF k = 4
    THEN <<48, 48, 58, 48, 48, 58, 48, 48, 58, 48, 48, 58, 48, 48, 58, 100, 57, 45, 48, 48, 58, 48, 48, 58, 48, 48, 58, 48, 48, 58, 48, 48, 58, 99, 56, 45, 49>>
    \* 00:00:00:00:00:62-00:00:00:00:00:c2-2
    ELSE IF k = 5
    THEN <<48, 48, 58, 48, 48, 58, 48, 48, 58, 48, 48, 58, 48, 48, 58, 54, 50, 45, 48, 48, 58, 48, 48, 58, 48, 48, 58, 48, 48, 58, 48, 48, 58, 99, 50, 45, 50>>
    \* 00:00:00:00:00:de-00:00:00:00:00:bb-3
    ELSE <<48, 48, 58, 48, 48, 58, 48, 48, 58, 48, 48, 58, 48, 48, 58, 100, 101, 45, 48, 48, 58, 48, 48, 58, 48, 48, 58, 48, 48, 58, 48, 48, 58, 98, 98, 45, 51>>

\* a ^ b on naturals
RECURSIVE BitXor(_, _)
BitXor(a, b) ==
    IF a = 0 THEN b
    ELSE IF b = 0 THEN a
    ELSE 2 * BitXor(a \div 2, b \div 2) + ((a + b) % 2)

\* zlib.crc32 keeps 32 bits; the model keeps them as two halves of 16 bits.
\* One bit of the CRC: shift right, and xor the polynomial 0xEDB88320 in
\* when the bit shifted out is 1
CrcShift(c) ==
    LET hi == c.hi \div 2
        lo == (c.lo \div 2) + (c.hi % 2) * 32768
    IN  IF c.lo % 2 = 1
        THEN [hi |-> BitXor(hi, 60856), lo |-> BitXor(lo, 33568)]
        ELSE [hi |-> hi, lo |-> lo]

RECURSIVE CrcBits(_, _)
CrcBits(c, n) ==
    IF n = 0 THEN c
    ELSE LET s == CrcShift(c)
         IN  IF s.lo >= 0 THEN CrcBits(s, n - 1) ELSE s

\* the CRC after the bytes k.. of the input
RECURSIVE CrcBytes(_, _, _)
CrcBytes(bytes, k, c) ==
    IF k > Len(bytes) THEN c
    ELSE LET s == CrcBits([hi |-> c.hi, lo |-> BitXor(c.lo, bytes[k])], 8)
         IN  IF s.lo >= 0 THEN CrcBytes(bytes, k + 1, s) ELSE s

\* zlib.crc32(bytes)
crc32(bytes) ==
    LET c == CrcBytes(bytes, 1, [hi |-> Mask16, lo |-> Mask16])
    IN  [hi |-> Mask16 - c.hi, lo |-> Mask16 - c.lo]

\* (zlib.crc32(flow_sig.encode()) & 0xFFFF) + 1
MeterId(bytes) == crc32(bytes).lo + 1

\* the meter id of each flow of the model
MeterIds == [k \in 1..MaxSigs |-> MeterId(FlowSig(k))]

\* an optional key of policy_params: <<>> when absent, <<v>> when given
Get(opt, default) == IF opt = <<>> THEN default ELSE opt[1]

\* bandwidth_mbps, in units of 0.0001 Mbps: -1, 0, 0.0004, 0.5, 1 and 10
BandwidthValues == {0 - 10000, 0, 4, 5000, 10000, 100000}

\* burst_size
BurstValues == {0, 100, 1000}

\* int(x) of a value in tenths: truncation toward zero
IntOfTenths(x) == IF x >= 0 THEN x \div 10 ELSE 0 - ((0 - x) \div 10)

\* rate_kbps = int(bandwidth_mbps * 1000); if rate_kbps <= 0: rate_kbps = 1000
RateKbps(params) ==
    LET rate_kbps == IntOfTenths(Get(params.bandwidth_mbps, 10000))
    IN  IF rate_kbps <= 0 THEN 1000 ELSE rate_kbps

\* mt before any throttle rule
NoMeter ==
    [flow_sig |-> <<>>, bandwidth_mbps |-> <<>>, meter_id |-> 0, rate_kbps |-> 0,
     burst_size |-> 0]

InitMeter == mt = NoMeter

\* the throttle branch for one flow: the OFPMeterMod that add_meter sends.
\* policy_params is a non-empty dict with numeric values (an empty one
\* installs no meter; a non-numeric one raises and meter_id is None)
AddThrottleMeter ==
    /\ \E k \in 1..MaxSigs, bw \in {<<>>} \cup { <<v>> : v \in BandwidthValues },
          burst \in {<<>>} \cup { <<v>> : v \in BurstValues } :
          mt' = [flow_sig |-> FlowSig(k), bandwidth_mbps |-> bw,
                 meter_id |-> MeterIds[k],
                 rate_kbps |-> RateKbps([bandwidth_mbps |-> bw]),
                 burst_size |-> Get(burst, 0)]
    /\ UNCHANGED <<pf, coreVars, levelVars, subVars, lifeVars, queryVars, fwdVars, stopVars>>

----------------------------------------------------------------------------
(* Event subscription: EndpointSubscriber.connect, _receive_loop, _dispatch *)
(* and EventSubscriberManager.register_handler (event_subscriber.py)        *)

\* the endpoints of the model: /ws/flow-updates and /ws/network-status
Endpoints == {"FLOW_UPDATE", "NETWORK_STATUS"}

\* the endpoint whose frames and handlers the model follows; the other
\* endpoint connects, fails and reconnects but stays silent
FrameEndpoints == {"FLOW_UPDATE"}

\* the handlers create_app registers for FLOW_UPDATE
HandlersFor(et) == {"_log_event", "record_event_for_ui", "handle_flow_event"}

\* EndpointSubscriber(max_retries=10, base_delay=1.0, max_delay=60.0)
ws_max_retries == 10

base_delay == 1

max_delay == 60

\* the number of frames the controller sends in a run of the model
MaxFrames == 2

RECURSIVE Pow2(_)
Pow2(n) == IF n <= 0 THEN 1 ELSE 2 * Pow2(n - 1)

Min(a, b) == IF a <= b THEN a ELSE b

\* faulty variant: the delay keeps doubling
BackoffDelay_uncapped(retry_count) == base_delay * Pow2(retry_count - 1)

\* delay = min(self._base_delay * (2 ** (self._retry_count - 1)), self._max_delay)
BackoffDelay(retry_count) == Min(base_delay * Pow2(retry_count - 1), max_delay)

\* faulty variant: the handler's exception leaves _dispatch (the receive loop
\* catches it and goes on with the next frame)
AfterHandler_propagate(raised) == IF raised THEN "receive" ELSE "dispatch"

\* try: handler(event); except Exception: log -- the loop over the handlers
\* goes on
AfterHandler(raised) == "dispatch"

\* calls, raised_at, fails and wait are history: the handlers called for the
\* frame in hand, the place of the first one that raised (0: none), the
\* failures since the last successful connection, the delay of the sleep
SubNew ==
    [pc |-> "connect", running |-> TRUE, retry_count |-> 0, idx |-> 0,
     calls |-> <<>>, raised_at |-> 0, fails |-> 0, wait |-> 0]

\* the last frame an endpoint has dispatched (registered: the length of the
\* handler list when its dispatch ended)
NoFrame == [calls |-> <<>>, raised_at |-> 0, registered |-> 0]

InitSub ==
    /\ ws_handlers = [et \in Endpoints |-> <<>>]
    /\ sub = [e \in Endpoints |-> SubNew]
    /\ frames = [received |-> 0, bad |-> 0, last |-> [e \in Endpoints |-> NoFrame]]

\* register_handler: if handler not in self._handlers[et]: append
RegisterHandler ==
    /\ \E et \in FrameEndpoints : \E h \in HandlersFor(et) :
          ws_handlers' =
             [ws_handlers EXCEPT ![et] =
                 IF \E k \in 1..Len(@) : @[k] = h THEN @ ELSE Append(@, h)]
    /\ UNCHANGED <<sub, frames, coreVars, levelVars, lifeVars, queryVars, fwdVars, stopVars, fnVars>>

\* the part of connect() after the `async with` block is left: retry count,
\* give up or sleep
AfterFailure(s) ==
    IF ~s.running THEN [s EXCEPT !.pc = "done"]
    ELSE LET rc == s.retry_count + 1
         IN  IF rc > ws_max_retries
             THEN [s EXCEPT !.pc = "done", !.retry_count = rc, !.fails = @ + 1]
             ELSE [s EXCEPT !.pc = "sleep", !.retry_count = rc, !.fails = @ + 1,
                            !.wait = BackoffDelay(rc)]

\* websockets.connect(...): entered (retry count back to 0) or raised
SubConnect(e) ==
    /\ sub[e].pc = "connect"
    /\ \E ok \in BOOLEAN :
          sub' = [sub EXCEPT ![e] =
                     IF ok THEN [@ EXCEPT !.pc = "receive", !.retry_count = 0,
                                          !.fails = 0, !.wait = 0]
                     ELSE AfterFailure(@)]
    /\ UNCHANGED <<ws_handlers, frames, coreVars, levelVars, lifeVars, queryVars, fwdVars, stopVars, fnVars>>

\* await asyncio.sleep(delay) returns; `while self._running` is tested
SubWake(e) ==
    /\ sub[e].pc = "sleep"
    /\ sub' = [sub EXCEPT ![e].pc = IF sub[e].running THEN "connect" ELSE "done"]
    /\ UNCHANGED <<ws_handlers, frames, coreVars, levelVars, lifeVars, queryVars, fwdVars, stopVars, fnVars>>

\* the connection ends under _receive_loop (ConnectionClosed, or the
\* iteration over ws ends)
SubClosed(e) ==
    /\ sub[e].pc = "receive"
    /\ sub' = [sub EXCEPT ![e] = AfterFailure(@)]
    /\ UNCHANGED <<ws_handlers, frames, coreVars, levelVars, lifeVars, queryVars, fwdVars, stopVars, fnVars>>

\* one message of `async for message in ws`: json.loads fails (logged, next
\* message), or the event is handed to _dispatch
SubReceive(e) ==
    /\ e \in FrameEndpoints
    /\ sub[e].pc = "receive"
    /\ frames.received < MaxFrames
    /\ \E json_ok \in BOOLEAN :
          IF json_ok
          THEN /\ sub' = [sub EXCEPT ![e].pc = "dispatch", ![e].idx = 0,
                                     ![e].calls = <<>>, ![e].raised_at = 0]
               /\ frames' = [frames EXCEPT !.received = @ + 1]
          ELSE /\ sub' = sub
               /\ frames' = [frames EXCEPT !.received = @ + 1, !.bad = @ + 1]
    /\ UNCHANGED <<ws_handlers, coreVars, levelVars, lifeVars, queryVars, fwdVars, stopVars, fnVars>>

\* one turn of `for handler in self._handlers` (the list the manager appends
\* to): the next handler is called, or the list is exhausted and the frame done
SubDispatch(e) ==
    /\ sub[e].pc = "dispatch"
    /\ IF sub[e].idx < Len(ws_handlers[e])
       THEN \E raised \in BOOLEAN :
               LET next  == AfterHandler(raised)
                   calls == Append(sub[e].calls, ws_handlers[e][sub[e].idx + 1])
                   at    == IF raised /\ sub[e].raised_at = 0
                            THEN sub[e].idx + 1 ELSE sub[e].raised_at
               IN  /\ sub' = [sub EXCEPT ![e].idx = @ + 1, ![e].calls = calls,
                                         ![e].raised_at = at, ![e].pc = next]
                   /\ frames' = IF next = "dispatch" THEN frames
                                ELSE [frames EXCEPT !.last[e] =
                                        [calls |-> calls, raised_at |-> at,
                                         registered |-> Len(ws_handlers[e])]]
       ELSE /\ sub' = [sub EXCEPT ![e].pc = "receive"]
            /\ frames' = [frames EXCEPT !.last[e] =
                  [calls |-> sub[e].calls, raised_at |-> sub[e].raised_at,
                   registered |-> Len(ws_handlers[e])]]
    /\ UNCHANGED <<ws_handlers, coreVars, levelVars, lifeVars, queryVars, fwdVars, stopVars, fnVars>>

\* EndpointSubscriber.disconnect(): _running = False and the socket is closed
SubDisconnect(e) ==
    /\ sub[e].running
    /\ sub[e].pc # "done"
    /\ sub' = [sub EXCEPT ![e].running = FALSE]
    /\ UNCHANGED <<ws_handlers, frames, coreVars, levelVars, lifeVars, queryVars, fwdVars, stopVars, fnVars>>

----------------------------------------------------------------------------
(* Start and stop: EventSubscriberManager.start, _run_loop, stop            *)
(* (event_subscriber.py) and start/stop_flow_detection_workers              *)
(* (flow_detection.py)                                                      *)

\* the number of start/stop calls made on the manager, and on the workers
MaxCalls == 4

\* faulty variant: start does not look at the flag
AlreadyStarted_ignored(flag) == FALSE

\* if self._running: return  /  if _workers_started: return
AlreadyStarted(flag) == flag

\* created, calls and last are history: subscriber objects made per endpoint,
\* the calls of start and stop, and the last of them
InitLife ==
    /\ mgr = [running |-> FALSE, thread |-> 0, loop |-> 0,
              subscribers |-> [e \in Endpoints |-> 0],
              created |-> [e \in Endpoints |-> 0],
              calls |-> 0, last |-> "none"]
    /\ threads = <<>>
    /\ cos = {}
    /\ disc = {}
    /\ obj_running = {}
    /\ fw = [workers_started |-> FALSE, executor |-> 0, batcher |-> 0,
             executors_created |-> 0, batchers_created |-> 0,
             executors_alive |-> {}, batchers_alive |-> {},
             calls |-> 0, last |-> "none"]

\* EventSubscriberManager.start(): subscribe() makes a subscriber for every
\* endpoint that has none, then the thread is created and started
MgrStart ==
    /\ mgr.calls < MaxCalls
    /\ IF AlreadyStarted(mgr.running)
       THEN /\ mgr' = [mgr EXCEPT !.calls = @ + 1, !.last = "start"]
            /\ threads' = threads
       ELSE /\ mgr' = [mgr EXCEPT
                  !.running = TRUE,
                  !.thread = Len(threads) + 1,
                  !.subscribers = [e \in Endpoints |->
                      IF mgr.subscribers[e] = 0 THEN mgr.created[e] + 1
                      ELSE mgr.subscribers[e]],
                  !.created = [e \in Endpoints |->
                      IF mgr.subscribers[e] = 0 THEN @[e] + 1 ELSE @[e]],
                  !.calls = @ + 1, !.last = "start"]
            /\ threads' = Append(threads, [state |-> "started", tasks |-> {}])
    /\ UNCHANGED <<cos, disc, obj_running, fw, coreVars, levelVars, subVars, queryVars, fwdVars, stopVars, fnVars>>

\* _run_loop: self._loop = asyncio.new_event_loop()
ThreadSetLoop(t) ==
    /\ threads[t].state = "started"
    /\ threads' = [threads EXCEPT ![t].state = "loop_set"]
    /\ mgr' = [mgr EXCEPT !.loop = t]
    /\ UNCHANGED <<cos, disc, obj_running, fw, coreVars, levelVars, subVars, queryVars, fwdVars, stopVars, fnVars>>

\* _run_loop: tasks = [sub.connect() for sub in self._subscribers.values()];
\* run_until_complete(gather(*tasks)) when there are any
ThreadGather(t) ==
    /\ threads[t].state = "loop_set"
    /\ LET tasks == {<<e, mgr.subscribers[e]>> : e \in {x \in Endpoints : mgr.subscribers[x] # 0}}
       IN  /\ threads' = [threads EXCEPT
                 ![t] = [state |-> IF tasks = {} THEN "finished" ELSE "looping",
                         tasks |-> tasks]]
           /\ cos' = cos \cup {[obj |-> o, t |-> t, state |-> "new"] : o \in tasks}
    /\ UNCHANGED <<mgr, disc, obj_running, fw, coreVars, levelVars, subVars, queryVars, fwdVars, stopVars, fnVars>>

\* connect() begins on its loop: self._running = True
CoBegin(c) ==
    /\ c \in cos /\ c.state = "new"
    /\ cos' = (cos \ {c}) \cup {[c EXCEPT !.state = "active"]}
    /\ obj_running' = obj_running \cup {c.obj}
    /\ UNCHANGED <<mgr, threads, disc, fw, coreVars, levelVars, subVars, queryVars, fwdVars, stopVars, fnVars>>

\* a disconnect() scheduled by stop() runs on its loop, after the first step
\* of the tasks the loop was started with: _running = False and the socket
\* is closed
DiscRun(d) ==
    /\ d \in disc
    /\ threads[d.t].state = "looping"
    /\ ~\E c \in cos : c.t = d.t /\ c.state = "new"
    /\ disc' = disc \ {d}
    /\ obj_running' = obj_running \ {d.obj}
    /\ UNCHANGED <<mgr, threads, cos, fw, coreVars, levelVars, subVars, queryVars, fwdVars, stopVars, fnVars>>

\* connect() returns: `if not self._running: break` after a disconnect(), or
\* the break on _retry_count > _max_retries
CoExit(c) ==
    /\ c \in cos /\ c.state = "active"
    /\ \E gave_up \in BOOLEAN : gave_up \/ c.obj \notin obj_running
    /\ cos' = cos \ {c}
    /\ UNCHANGED <<mgr, threads, disc, obj_running, fw, coreVars, levelVars, subVars, queryVars, fwdVars, stopVars, fnVars>>

\* run_until_complete returns when every connect() has returned
ThreadFinish(t) ==
    /\ threads[t].state = "looping"
    /\ ~\E c \in cos : c.t = t
    /\ threads' = [threads EXCEPT ![t].state = "finished"]
    /\ UNCHANGED <<mgr, cos, disc, obj_running, fw, coreVars, levelVars, subVars, queryVars, fwdVars, stopVars, fnVars>>

\* EventSubscriberManager.stop(): disconnect() is scheduled on self._loop for
\* every subscriber, the thread is joined for at most 5 s, the dict cleared
MgrStop ==
    /\ mgr.calls < MaxCalls
    /\ mgr' = [mgr EXCEPT !.running = FALSE, !.thread = 0,
                          !.subscribers = [e \in Endpoints |-> 0],
                          !.calls = @ + 1, !.last = "stop"]
    /\ disc' = IF mgr.loop = 0 THEN disc
               ELSE disc \cup
                    { [obj |-> <<e, mgr.subscribers[e]>>, t |-> mgr.loop] :
                      e \in {x \in Endpoints : mgr.subscribers[x] # 0} }
    /\ UNCHANGED <<threads, cos, obj_running, fw, coreVars, levelVars, subVars, queryVars, fwdVars, stopVars, fnVars>>

\* start_flow_detection_workers()
FwStart ==
    /\ fw.calls < MaxCalls
    /\ IF AlreadyStarted(fw.workers_started)
       THEN fw' = [fw EXCEPT !.calls = @ + 1, !.last = "start"]
       ELSE fw' = [fw EXCEPT
               !.workers_started = TRUE,
               !.executor = fw.executors_created + 1,
               !.executors_created = @ + 1,
               !.executors_alive = @ \cup {fw.executors_created + 1},
               !.batcher = fw.batchers_created + 1,
               !.batchers_created = @ + 1,
               !.batchers_alive = @ \cup {fw.batchers_created + 1},
               !.calls = @ + 1, !.last = "start"]
    /\ UNCHANGED <<mgr, threads, cos, disc, obj_running, coreVars, levelVars, subVars, queryVars, fwdVars, stopVars, fnVars>>

\* stop_flow_detection_workers(): the stop event is set, the dispatcher is
\* joined for at most 2 s (seen: it saw the event before it was cleared
\* again), the pool is shut down
FwStop ==
    /\ fw.calls < MaxCalls
    /\ IF ~fw.workers_started
       THEN fw' = [fw EXCEPT !.calls = @ + 1, !.last = "stop"]
       ELSE \E seen \in BOOLEAN :
               fw' = [fw EXCEPT
                  !.workers_started = FALSE,
                  !.batcher = 0,
                  !.batchers_alive = IF seen THEN @ \ {fw.batcher} ELSE @,
                  !.executor = 0,
                  !.executors_alive = @ \ {fw.executor},
                  !.calls = @ + 1, !.last = "stop"]
    /\ UNCHANGED <<mgr, threads, cos, disc, obj_running, coreVars, levelVars, subVars, queryVars, fwdVars, stopVars, fnVars>>

----------------------------------------------------------------------------
(* The event query: get_recent_events (event_subscriber.py) behind          *)
(* GET /events (api/events.py)                                              *)

\* Python's lst[-limit:] : the last `limit` elements, the whole list for 0
LastSlice(buf, limit) ==
    IF limit = 0 \/ limit >= Len(buf) THEN buf
    ELSE SubSeq(buf, Len(buf) - limit + 1, Len(buf))

\* [e for e in events if e.event_type in event_types]
OfTypes(events, event_types) ==
    LET Keep(e) == e.type \in event_types
    IN  SelectSeq(events, Keep)

\* faulty variant: the slice is reversed before it is returned
get_recent_events_newestFirst(buf, limit, event_types) ==
    LET slice  == LastSlice(buf, limit)
        events == [i \in 1..Len(slice) |-> slice[Len(slice) + 1 - i]]
    IN  IF event_types.is_none THEN events ELSE OfTypes(events, event_types.types)

\* get_recent_events(limit, event_types): the slice is taken under the lock,
\* then filtered by type
get_recent_events(buf, limit, event_types) ==
    LET events == LastSlice(buf, limit)
    IN  IF event_types.is_none THEN events ELSE OfTypes(events, event_types.types)

\* limit = max(1, min(limit, 200)); 200 is also _ui_events_max_len
ClampLimit(limit) ==
    IF limit < 1 THEN 1
    ELSE IF limit > ui_events_max_len THEN ui_events_max_len ELSE limit

\* event_types: None (no types parameter, or no known type in it), or the
\* set of the known types named
NoFilter == [is_none |-> TRUE, types |-> {}]

TypeFilters ==
    {NoFilter} \cup
    {[is_none |-> FALSE, types |-> ts] :
        ts \in {{"FLOW_UPDATE"}, {"NETWORK_STATUS", "TRAFFIC_ANOMALY"}}}

\* the number of GET /events requests a run of the model makes
MaxRequests == 1

NoAnswer == [limit |-> 0, types |-> NoFilter, items |-> <<>>, requests |-> 0]

InitQuery == recent = NoAnswer

\* list_recent_events(): one GET /events request
ListRecentEvents ==
    /\ recent.requests < MaxRequests
    /\ \E raw \in 0..(ui_events_max_len + 1), types \in TypeFilters :
          recent' = [limit |-> ClampLimit(raw), types |-> types,
                     items |-> get_recent_events(ui_events, ClampLimit(raw), types),
                     requests |-> recent.requests + 1]
    /\ UNCHANGED <<coreVars, levelVars, subVars, lifeVars, fwdVars, stopVars, fnVars>>

----------------------------------------------------------------------------
(* Specifications                                                          *)

\* ---------------------------------------------------------------------------
\* Stopping and restarting the flow workers, with the two timeouts the code
\* uses (flow_detection.py, _batcher_loop, stop_flow_detection_workers and
\* start_flow_detection_workers).  Time advances in steps of one second.  The
\* dispatcher's own statements take no time: a second passes only while every
\* dispatcher is blocked in its queue get or has ended.  The stopping thread
\* and the pool's workers may take any time.
\* ---------------------------------------------------------------------------

\* dispatcher threads the model can hold at once
MaxDispatchers == 2

\* tasks and batches that are queued, held by a dispatcher or in the pool
MaxOutstanding == 3

\* _task_queue.get(timeout=1.0)
get_timeout == 1

\* _batcher_thread.join(timeout=2.0)
join_timeout == 2

Dispatchers == 1..MaxDispatchers

shutdown_wait_false == FALSE

\* _executor.shutdown(wait=True)
shutdown_wait == TRUE

NoDispatcher == [pc |-> "none", wait_left |-> 0]

DispatcherAlive(d) == sd.disp[d].pc \in {"check", "get", "submit"}

\* batches a dispatcher has taken from the queue and not yet submitted
Holding == Cardinality({d \in Dispatchers : sd.disp[d].pc = "submit"})

InitStop ==
    sd = [workers_started |-> FALSE, stop_event |-> FALSE, executor |-> "none",
          batcher_thread |-> 0, disp |-> [d \in Dispatchers |-> NoDispatcher],
          queued |-> 0, pool |-> 0, stop_pc |-> "idle", join_left |-> 0,
          join_timed_out |-> FALSE, stopped_once |-> FALSE, discarded |-> FALSE]

\* handle_flow_event puts a task on the queue (it does so whether or not the
\* workers are started)
SdEnqueue ==
    /\ sd.queued + Holding + sd.pool < MaxOutstanding
    /\ sd' = [sd EXCEPT !.queued = @ + 1]
    /\ UNCHANGED <<coreVars, levelVars, subVars, lifeVars, queryVars, fwdVars, fnVars>>

\* start_flow_detection_workers: a new pool and a new dispatcher thread
SdStart ==
    /\ ~sd.workers_started
    /\ \E d \in Dispatchers :
          /\ sd.disp[d].pc \in {"none", "exited"}
          /\ sd' = [sd EXCEPT !.workers_started = TRUE,
                              !.executor = "open",
                              !.batcher_thread = d,
                              !.disp[d] = [pc |-> "check", wait_left |-> 0]]
    /\ UNCHANGED <<coreVars, levelVars, subVars, lifeVars, queryVars, fwdVars, fnVars>>

\* while not _stop_event.is_set(): ... _task_queue.get(timeout=1.0)
DispCheck(d) ==
    /\ sd.disp[d].pc = "check"
    /\ sd' = [sd EXCEPT !.disp[d] = IF sd.stop_event
                                       THEN [pc |-> "exited", wait_left |-> 0]
                                       ELSE [pc |-> "get", wait_left |-> get_timeout]]
    /\ UNCHANGED <<coreVars, levelVars, subVars, lifeVars, queryVars, fwdVars, fnVars>>

\* the get returns a task; get_nowait fills the batch from what is queued
DispGet(d) ==
    /\ sd.disp[d].pc = "get"
    /\ sd.queued > 0
    /\ \E n \in 1..BATCH_SIZE :
          /\ n = IF sd.queued < BATCH_SIZE THEN sd.queued ELSE BATCH_SIZE
          /\ sd' = [sd EXCEPT !.queued = @ - n,
                              !.disp[d] = [pc |-> "submit", wait_left |-> 0]]
    /\ UNCHANGED <<coreVars, levelVars, subVars, lifeVars, queryVars, fwdVars, fnVars>>

\* except queue.Empty: continue
DispTimeout(d) ==
    /\ sd.disp[d].pc = "get"
    /\ sd.queued = 0
    /\ sd.disp[d].wait_left = 0
    /\ sd' = [sd EXCEPT !.disp[d] = [pc |-> "check", wait_left |-> 0]]
    /\ UNCHANGED <<coreVars, levelVars, subVars, lifeVars, queryVars, fwdVars, fnVars>>

\* if _executor: _executor.submit(_process_batch, tasks).  Without a pool the
\* batch is dropped; a pool that is shutting down refuses it with a
\* RuntimeError, which ends the dispatcher thread.  discarded is history:
\* a batch taken from the queue did not reach the pool.
DispSubmit(d) ==
    /\ sd.disp[d].pc = "submit"
    /\ sd' = [sd EXCEPT !.pool = IF sd.executor = "open" THEN @ + 1 ELSE @,
                        !.discarded = @ \/ sd.executor # "open",
                        !.disp[d] = IF sd.executor = "shutdown"
                                       THEN [pc |-> "exited", wait_left |-> 0]
                                       ELSE [pc |-> "check", wait_left |-> 0]]
    /\ UNCHANGED <<coreVars, levelVars, subVars, lifeVars, queryVars, fwdVars, fnVars>>

\* a pool worker runs _process_batch on a submitted batch to its end
PoolRun ==
    /\ sd.pool > 0
    /\ sd' = [sd EXCEPT !.pool = @ - 1]
    /\ UNCHANGED <<coreVars, levelVars, subVars, lifeVars, queryVars, fwdVars, fnVars>>

\* stop_flow_detection_workers up to the join: _stop_event.set()
StopBegin ==
    /\ sd.stop_pc = "idle"
    /\ sd.workers_started
    /\ sd' = [sd EXCEPT !.stop_event = TRUE,
                        !.stop_pc = "join",
                        !.join_left = join_timeout]
    /\ UNCHANGED <<coreVars, levelVars, subVars, lifeVars, queryVars, fwdVars, fnVars>>

\* _batcher_thread.join(timeout=2.0) returns, because the thread has ended or
\* because the two seconds are over; _batcher_thread = None;
\* _executor.shutdown(wait=True) begins
StopJoined ==
    /\ sd.stop_pc = "join"
    /\ ~DispatcherAlive(sd.batcher_thread) \/ sd.join_left = 0
    /\ sd' = [sd EXCEPT !.join_timed_out = @ \/ DispatcherAlive(sd.batcher_thread),
                        !.batcher_thread = 0,
                        !.executor = "shutdown",
                        !.stop_pc = "shutdown",
                        !.join_left = 0]
    /\ UNCHANGED <<coreVars, levelVars, subVars, lifeVars, queryVars, fwdVars, fnVars>>

\* shutdown returns; _executor = None; _workers_started = False;
\* _stop_event.clear()
StopReturn ==
    /\ sd.stop_pc = "shutdown"
    /\ shutdown_wait => sd.pool = 0
    /\ sd' = [sd EXCEPT !.executor = "none",
                        !.workers_started = FALSE,
                        !.stop_event = FALSE,
                        !.stop_pc = "idle",
                        !.stopped_once = TRUE]
    /\ UNCHANGED <<coreVars, levelVars, subVars, lifeVars, queryVars, fwdVars, fnVars>>

\* one second passes
SecondPasses ==
    /\ \A d \in Dispatchers :
          \/ ~DispatcherAlive(d)
          \/ sd.disp[d].pc = "get" /\ sd.queued = 0 /\ sd.disp[d].wait_left > 0
    /\ sd' = [sd EXCEPT !.disp = [d \in Dispatchers |->
                                     IF sd.disp[d].pc = "get"
                                     THEN [sd.disp[d] EXCEPT !.wait_left = @ - 1]
                                     ELSE sd.disp[d]],
                        !.join_left = IF @ > 0 THEN @ - 1 ELSE 0]
    /\ UNCHANGED <<coreVars, levelVars, subVars, lifeVars, queryVars, fwdVars, fnVars>>

\* a second passes while a dispatcher is between two statements: the thread
\* is not scheduled (Python gives it no bound), and join(timeout=2.0) keeps
\* counting
DispatcherStalls ==
    /\ \E d \in Dispatchers : sd.disp[d].pc \in {"check", "submit"}
    /\ sd.join_left > 0
    /\ sd' = [sd EXCEPT !.disp = [d \in Dispatchers |->
                                     IF sd.disp[d].pc = "get" /\ sd.disp[d].wait_left > 0
                                     THEN [sd.disp[d] EXCEPT !.wait_left = @ - 1]
                                     ELSE sd.disp[d]],
                        !.join_left = @ - 1]
    /\ UNCHANGED <<coreVars, levelVars, subVars, lifeVars, queryVars, fwdVars, fnVars>>

InitAll ==
    /\ InitResp /\ InitRing /\ InitPolicy /\ InitPipe /\ InitClient
    /\ InitLevel /\ InitSub /\ InitLife /\ InitQuery /\ InitFwd /\ InitStop
    /\ InitPredict /\ InitMeter

ArStep(i) ==
    \/ ArStart(i)
    \/ ArGate(i)
    \/ ArTopology(i)
    \/ ArCreate(i)
    \/ ArApply(i)
    \/ ArEmit(i)
    \/ ArExcept(i)

NextResp == \E i \in Responders : ArStep(i)

SpecResp == InitAll /\ [][NextResp]_vars

NextRing == RecordEvent

SpecRing == InitAll /\ [][NextRing]_vars

NextPolicy == CreatePolicy \/ RevokePolicy \/ ApplyPolicy \/ CheckPacket

SpecPolicy == InitAll /\ [][NextPolicy]_vars

BatcherStep == BatcherGetFirst \/ BatcherGetNext \/ BatcherSubmit

WorkerStep(w) == WorkerTake(w) \/ WorkerQuery(w) \/ WorkerTxn(w)

NextPipe == HandleFlowEvent \/ BatcherStep \/ \E w \in Workers : WorkerStep(w)

SpecPipe == InitAll /\ [][NextPipe]_vars

\* the dispatcher thread and the pool workers are scheduled: each keeps
\* running while it has a step to take
SpecPipeFair ==
    /\ InitAll
    /\ [][NextPipe]_vars
    /\ WF_vars(BatcherStep)
    /\ \A w \in Workers : WF_vars(WorkerStep(w))

ClStep(t) ==
    \/ ClCall(t)
    \/ ClEnsure(t)
    \/ ClGetToken(t)
    \/ ClStore(t)
    \/ ClEnsureRet(t)
    \/ ClSend(t)
    \/ ClRefreshRead(t)
    \/ ClRefreshHttp(t)

NextClient == Tick \/ \E t \in ClientThreads : ClStep(t)

SpecClient == InitAll /\ [][NextClient]_vars

NextLevel == LoadThresholds \/ PredictFlow

SpecLevel == InitAll /\ [][NextLevel]_vars

SubStep(e) ==
    \/ SubConnect(e)
    \/ SubWake(e)
    \/ SubClosed(e)
    \/ SubReceive(e)
    \/ SubDispatch(e)
    \/ SubDisconnect(e)

NextSub == RegisterHandler \/ \E e \in Endpoints : SubStep(e)

SpecSub == InitAll /\ [][NextSub]_vars

NextLife ==
    \/ MgrStart
    \/ MgrStop
    \/ \E t \in 1..Len(threads) : ThreadSetLoop(t) \/ ThreadGather(t) \/ ThreadFinish(t)
    \/ \E c \in cos : CoBegin(c) \/ CoExit(c)
    \/ \E d \in disc : DiscRun(d)
    \/ FwStart
    \/ FwStop

SpecLife == InitAll /\ [][NextLife]_vars

NextQuery == RecordEvent \/ ListRecentEvents

SpecQuery == InitAll /\ [][NextQuery]_vars

NextFwd ==
    \/ CreatePolicy
    \/ RevokePolicy
    \/ ApplyPolicy
    \/ HandlePacketIn
    \/ FlowIdleTimeout

SpecFwd == InitAll /\ [][NextFwd]_vars

DispStep(d) == DispCheck(d) \/ DispGet(d) \/ DispTimeout(d) \/ DispSubmit(d)

NextStop ==
    \/ SdEnqueue
    \/ SdStart
    \/ \E d \in Dispatchers : DispStep(d)
    \/ PoolRun
    \/ StopBegin
    \/ StopJoined
    \/ StopReturn
    \/ SecondPasses

SpecStop == InitAll /\ [][NextStop]_vars

\* the same threads without the assumption that the dispatcher is never
\* kept from running
NextStopAsync == NextStop \/ DispatcherStalls

SpecStopAsync == InitAll /\ [][NextStopAsync]_vars

NextPredict == PredictOne

SpecPredict == InitAll /\ [][NextPredict]_vars

NextMeter == AddThrottleMeter

SpecMeter == InitAll /\ [][NextMeter]_vars

----------------------------------------------------------------------------
(* Properties                                                              *)

\* C1: for every flow_id the auto-responder's create_policy succeeds at most
\* once in a process lifetime, whatever the sequence and interleaving of its
\* invocations and whichever later step (apply, event emission) fails.
CreatedAtMostOncePerFlow ==
    \A f \in Flows :
        Cardinality({k \in 1..Len(policies) : policies[k].flow = f}) <= 1

\* C2: check_packet returns the normalized action of an active matched policy
\* whose priority is >= that of every other active matched policy, and then
\* its reason names that policy (never the no-match default); when no active
\* policy matches it returns (allow, None, {}).
HighestPriorityMatchWins ==
    cp_result # NoResult =>
        LET M == {k \in 1..Len(cp_policies) :
                     /\ cp_policies[k].status = "active"
                     /\ Matches(cp_policies[k], cp_packet)}
        IN  IF M = {}
            THEN /\ cp_result.final_action = "allow"
                 /\ cp_result.reason = None
                 /\ cp_result.action_params = EmptyParams
            ELSE \E k \in M :
                    /\ \A j \in M : cp_policies[k].priority >= cp_policies[j].priority
                    /\ cp_result.final_action = NormalizeAction(RawAction(cp_policies[k]))
                    /\ cp_result.reason = IF cp_policies[k].name # None
                                          THEN cp_policies[k].name ELSE cp_policies[k].id

\* C3: when an active policy whose other conditions match has a denied_ips
\* list containing the packet's remote IP, and every other active matched
\* policy has a lower priority, check_packet returns drop, whatever the
\* policy's allowed_ips and action field say.
AclDeniedDrops ==
    cp_result # NoResult =>
        \A k \in 1..Len(cp_policies) :
            LET p == cp_policies[k]
            IN  ( /\ p.status = "active"
                  /\ p.priority > InitialHighestPriority
                  /\ Matches(p, cp_packet)
                  /\ p.conditions.denied_ips # AbsentList
                  /\ ListHit(p.conditions.denied_ips, IpsToCheck(p.target_id, cp_packet))
                  /\ \A j \in 1..Len(cp_policies) :
                        (j # k /\ cp_policies[j].status = "active"
                               /\ Matches(cp_policies[j], cp_packet))
                            => cp_policies[j].priority < p.priority )
                => cp_result.final_action = "drop"

\* C4: once the pipeline is quiescent (queue, dispatcher and pool empty) after
\* a run in which every transaction committed, the row of each flow_id holds
\* the ingestion fields of the last event accepted into the queue for it.
LastAcceptedEventStored ==
    ( /\ task_queue = <<>>
      /\ batcher.pc = "wait"
      /\ exec_queue = <<>>
      /\ \A w \in Workers : workers[w].pc = "idle"
      /\ ~pipe.failures )
        => \A f \in Flows :
              pipe.last_accepted[f] # NoFlow
                  => db_rows[f].exists /\ db_rows[f].flow = pipe.last_accepted[f]

\* C5, as stated: for every batch whose _process_batch has ended and every
\* flow_id that several tasks of the batch share, exactly one detection log
\* of that flow_id is committed for the batch.
ExactlyOneLogPerFlowOfBatch ==
    \A b \in 1..Len(pipe.batches) :
        pipe.batches[b].state \in {"committed", "abandoned"}
            => \A k \in 1..Len(pipe.batches[b].tasks) :
                  (\E j \in 1..Len(pipe.batches[b].tasks) :
                      /\ j # k
                      /\ pipe.batches[b].tasks[j].flow_id = pipe.batches[b].tasks[k].flow_id)
                  => Cardinality({i \in 1..Len(det_logs) :
                         /\ det_logs[i].batch = b
                         /\ det_logs[i].flow_id = pipe.batches[b].tasks[k].flow_id}) = 1

\* C5, amended: a batch leaves at most one committed detection log per
\* flow_id, built from the last task of that flow_id in the batch; it leaves
\* exactly one when its transaction commits (at the first attempt or after
\* 'database is locked' retries) and the upsert of that flow_id yields a row,
\* and none when the transaction is abandoned or the upsert yields no row.
OneLogPerFlowOfCommittedBatch ==
    \A b \in 1..Len(pipe.batches) : \A f \in Flows :
        LET B    == pipe.batches[b]
            of_f == {k \in 1..Len(B.tasks) : B.tasks[k].flow_id = f}
            logs == {i \in 1..Len(det_logs) :
                        det_logs[i].batch = b /\ det_logs[i].flow_id = f}
        IN  /\ Cardinality(logs) <= 1
            /\ \A i \in logs :
                  /\ of_f # {}
                  /\ det_logs[i].payload_snapshot =
                        B.tasks[CHOOSE k \in of_f : \A j \in of_f : j <= k].flow
            /\ logs # {} <=> (of_f # {} /\ B.state = "committed" /\ f \notin B.skipped)

\* C5 witness: a batch with two different tasks of one flow_id committed
\* after a retry and left its single log.
RetriedBatchWithDuplicatesCommitted ==
    \E b \in 1..Len(pipe.batches) :
        LET B == pipe.batches[b]
        IN  /\ B.state = "committed"
            /\ B.attempts >= 2
            /\ Len(B.tasks) >= 2
            /\ B.tasks[1].flow_id = B.tasks[2].flow_id
            /\ B.tasks[1].flow # B.tasks[2].flow
            /\ Cardinality({i \in 1..Len(det_logs) : det_logs[i].batch = b}) = 1

RingHoldsMostRecent ==
    /\ Len(ui_events) <= ui_events_max_len
    /\ ui_events = IF Len(appended) <= ui_events_max_len THEN appended
                   ELSE SubSeq(appended, Len(appended) - ui_events_max_len + 1,
                               Len(appended))

\* C7 witness: more events were appended than the buffer holds.
RingHasEvicted ==
    /\ Len(appended) > ui_events_max_len
    /\ Len(ui_events) = ui_events_max_len

\* C8: every request _request has sent carried a token that had more than
\* TokenMargin seconds left when ensure_token read the clock, unless a token
\* refresh or acquisition was attempted for that request before it was sent.
FreshTokenOrRenewalAttempted ==
    \A t \in ClientThreads : \A k \in 1..Len(cl[t].sent) :
        cl[t].sent[k].expires_at - cl[t].sent[k].checked_at < TokenMargin
            => cl[t].sent[k].renewals > 0

\* C8 witness: a request went out with a token inside the margin, after an
\* acquisition for that request.
SentInsideMarginAfterRenewal ==
    \E t \in ClientThreads : \E k \in 1..Len(cl[t].sent) :
        /\ cl[t].sent[k].expires_at - cl[t].sent[k].checked_at < TokenMargin
        /\ cl[t].sent[k].renewals > 0

\* C9: a call that received 401 and renewed the token ends having sent
\* exactly two requests, the second with a token issued after the 401.
ResentOnceAfter401 ==
    \A t \in ClientThreads :
        ( /\ cl[t].phase = 2
          /\ cl[t].renewed_after_401
          /\ cl[t].pc \in {"returned", "raised", "deadlock"} )
            => /\ Len(cl[t].sent) = 2
               /\ cl[t].sent[2].token > cl[t].sent[1].issued_before

\* C10: when an invocation of the auto-responder ends in its failure handler
\* (create_policy or apply_policy raised after the gate), its flow_id is not
\* in _responded_flows at that moment, so a later invocation passes the gate.
FailureClearsResponded ==
    [][ \A i \in Responders :
           (ar[i].pc = "except" /\ ar'[i].pc = "failed")
               => ar[i].flow \notin responded_flows' ]_vars

\* C10 witness: an invocation failed at create_policy or apply_policy and
\* another invocation for the same flow_id has passed the gate.
GatePassedAgainAfterFailure ==
    \E i \in Responders, j \in Responders :
        /\ i # j
        /\ ar[i].pc = "failed"
        /\ ar[i].failed_at \in {"create", "apply"}
        /\ ar[j].flow = ar[i].flow
        /\ ar[j].pc \in {"topology", "create", "apply", "emit"}


\* C11: once the responder has chosen its action, the action is redirect when
\* the decision level is redirect and the topology answer holds a honeypot
\* node with a non-empty ip (the first such node is the target), block when
\* the level is redirect without such a node or with a failed topology query,
\* block when the level is block; for every other level the responder has
\* returned without creating a policy.  A created policy carries that action
\* and, for a redirect, that target.
ResponderActionFollowsLevelAndTopology ==
    \A i \in Responders :
        ar[i].action # None =>
            LET nodes == ar[i].topo.nodes
                hps   == {k \in 1..Len(nodes) :
                             nodes[k].type = "honeypot" /\ nodes[k].ip # ""}
                first == CHOOSE k \in hps : \A m \in hps : k <= m
                pid   == ar[i].policy_id
            IN  /\ (ar[i].level = "redirect" /\ hps # {}) =>
                       /\ ar[i].action = "redirect"
                       /\ ar[i].honeypot = nodes[first].ip
                /\ (ar[i].level = "redirect" /\ hps = {}) => ar[i].action = "block"
                /\ ar[i].level = "block" => ar[i].action = "block"
                /\ ar[i].level \notin {"redirect", "block"} =>
                       /\ ar[i].action = "none"
                       /\ ar[i].pc = "returned"
                       /\ pid = 0
                /\ pid # 0 =>
                       /\ policies[pid].action = ar[i].action
                       /\ policies[pid].flow = ar[i].flow
                       /\ policies[pid].target =
                              (IF ar[i].action = "redirect" THEN nodes[first].ip ELSE None)

\* a redirect that skipped a honeypot without ip and created its policy, next
\* to an invocation that was downgraded or returned without a policy
RedirectCreatedAndOtherDowngraded ==
    \E i, j \in Responders :
        /\ ar[i].level = "redirect" /\ ar[i].policy_id # 0
        /\ policies[ar[i].policy_id].action = "redirect"
        /\ ar[i].topo.nodes[1].ip = ""
        /\ \/ ar[j].level = "redirect" /\ ar[j].action = "block" /\ ar[j].policy_id # 0
           \/ ar[j].level = "throttle" /\ ar[j].pc = "returned"


\* C12: for every flow and final action, the event cache and the UI stream
\* hold exactly one event per finished invocation that created and applied
\* its policy: of type traffic_block for a block, traffic_redirect for a
\* redirect, carrying the flow_id.
OneResponseEventPerAppliedPolicy ==
    \A f \in Flows, a \in {"block", "redirect"} :
        LET type     == IF a = "block" THEN "TRAFFIC_BLOCK" ELSE "TRAFFIC_REDIRECT"
            finished == {i \in Responders :
                            /\ ar[i].pc \in {"returned", "failed"}
                            /\ ar[i].flow = f /\ ar[i].action = a
                            /\ ar[i].policy_id # 0
                            /\ policies[ar[i].policy_id].applied}
            cached   == {k \in 1..Len(appended) :
                            appended[k].flow = f /\ appended[k].type = type}
            streamed == {k \in 1..Len(ui_stream) :
                            ui_stream[k].flow = f /\ ui_stream[k].type = type}
        IN  /\ Cardinality(cached) = Cardinality(finished)
            /\ Cardinality(streamed) = Cardinality(finished)


\* C13: a pass of _process_batch starts a responder thread for a flow only
\* when the flow's detection result in that pass is block or redirect (never
\* for normal, alert, throttle or a failed prediction, whose level is
\* normal), and a pass that commits has started one for every flow with a
\* row whose result is block or redirect.
ResponderStartedIffBlockOrRedirect ==
    [][ \A w \in Workers :
          ( /\ workers[w].pc \in {"txn", "write"}
            /\ pipe'.batches[workers[w].batch].attempts
                  # pipe.batches[workers[w].batch].attempts ) =>
             LET b      == workers[w].batch
                 unique == workers[w].unique
                 level(k) == IF workers[w].error THEN "normal"
                             ELSE Predict(unique[k].flow)
             IN  /\ \A s \in pipe'.last_spawned :
                       /\ s.decision_level \in {"block", "redirect"}
                       /\ \E k \in 1..Len(unique) :
                             unique[k].flow_id = s.flow_id /\ level(k) = s.decision_level
                 /\ pipe'.batches[b].state = "committed" =>
                       \A k \in 1..Len(unique) :
                          ( /\ unique[k].flow_id \notin pipe'.batches[b].skipped
                            /\ level(k) \in {"block", "redirect"} )
                          => [flow_id |-> unique[k].flow_id, decision_level |-> level(k)]
                                \in pipe'.last_spawned
      ]_vars

\* a committed pass over a throttle flow and a redirect flow started the
\* responder for the redirect flow only
StartedForRedirectNotForThrottle ==
    /\ db_rows["f1"].decision_level = "throttle"
    /\ db_rows["f1"].detect_status = "dangerous"
    /\ db_rows["f2"].decision_level = "redirect"
    /\ pipe.last_spawned = {[flow_id |-> "f2", decision_level |-> "redirect"]}
    /\ \E b \in 1..Len(pipe.batches) :
          /\ pipe.batches[b].state = "committed"
          /\ Len(UniqueTasks(pipe.batches[b].tasks)) = 2
          /\ \A w \in Workers : workers[w].pc = "idle"


\* C14: under the loaded thresholds, whatever their values and order, the
\* level get_decision_level returned for a probability is the highest level
\* whose threshold the probability meets, or normal when it meets none, and
\* of two probabilities the smaller never got the higher level
\* (normal < alert < throttle < block < redirect).
DecisionLevelMonotoneAndHighestMet ==
    LET rank(level) == CHOOSE k \in 1..Len(DecisionLevels) : DecisionLevels[k] = level
        threshold(k) == CASE k = 2 -> thresholds.alert
                          [] k = 3 -> thresholds.throttle
                          [] k = 4 -> thresholds.block
                          [] k = 5 -> thresholds.redirect
        model == {d \in decisions : d.via = "model"}
    IN  /\ \A d \in model :
              LET met == {k \in 2..5 : d.prob >= threshold(k)}
              IN  rank(d.decision_level) =
                     (IF met = {} THEN 1 ELSE CHOOSE k \in met : \A m \in met : m <= k)
        /\ \A d1, d2 \in model :
              d1.prob <= d2.prob => rank(d1.decision_level) <= rank(d2.decision_level)

\* thresholds out of order (block below alert): a probability under the alert
\* threshold got block, a larger one redirect, a smaller one normal
LevelsDecidedUnderUnorderedThresholds ==
    /\ thresholds.block < thresholds.alert
    /\ \E d0, d1, d2 \in decisions :
          /\ d0.via = "model" /\ d1.via = "model" /\ d2.via = "model"
          /\ d0.prob < d1.prob /\ d1.prob < d2.prob
          /\ d1.prob < thresholds.alert
          /\ d0.decision_level = "normal"
          /\ d1.decision_level = "block"
          /\ d2.decision_level = "redirect"

\* C15: the detect_status written for a predicted flow depends on its
\* decision level only: safe for normal, suspicious for alert, dangerous for
\* throttle, block and redirect.
StatusIsFunctionOfLevel ==
    \A d \in decisions :
        d.detect_status =
            CASE d.decision_level = "normal" -> "safe"
              [] d.decision_level = "alert"  -> "suspicious"
              [] d.decision_level \in {"throttle", "block", "redirect"} -> "dangerous"
              [] OTHER -> "undefined"

\* all five levels were decided under one configuration, normal both by the
\* classifier and by a whitelist rule
AllLevelsGotAStatus ==
    /\ \A k \in 1..Len(DecisionLevels) :
          \E d \in decisions : d.decision_level = DecisionLevels[k] /\ d.via = "model"
    /\ \E d \in decisions : d.via = "whitelist" /\ d.detect_status = "safe"


\* C16: the handlers called for a frame are the handlers registered for the
\* endpoint's event type, one after another in registration order, whether or
\* not one of them raised; a dispatch step leaves the subscriber in its
\* receive loop (dispatching, or waiting for the next frame).
HandlersCalledInOrderDespiteRaise ==
    /\ [](\A e \in Endpoints :
            /\ frames.last[e].calls =
                  SubSeq(ws_handlers[e], 1, frames.last[e].registered)
            /\ sub[e].pc = "dispatch" =>
                  sub[e].calls = SubSeq(ws_handlers[e], 1, sub[e].idx))
    /\ [][\A e \in Endpoints :
            sub[e].pc = "dispatch" => sub'[e].pc \in {"dispatch", "receive"}]_vars

\* the first of three handlers raised for a frame, all three were called, and
\* the handlers are being called for the following frame
NextFrameDispatchedAfterRaise ==
    /\ frames.last["FLOW_UPDATE"].raised_at = 1
    /\ Len(frames.last["FLOW_UPDATE"].calls) = 3
    /\ frames.received = 2 /\ frames.bad = 0
    /\ sub["FLOW_UPDATE"].pc = "dispatch"
    /\ sub["FLOW_UPDATE"].idx = 2

\* C17 as stated: the wait before the k-th consecutive reconnect attempt is
\* min(2^(k-1), 60) seconds, a connected endpoint has failure count zero, and
\* an endpoint with 10 consecutive failures has stopped reconnecting, while
\* a step of one endpoint leaves the other endpoints as they are.
StopsAfterTenConsecutiveFailures ==
    /\ [](\A e \in Endpoints :
            /\ sub[e].pc = "sleep" =>
                  sub[e].wait = <<1, 2, 4, 8, 16, 32, 60, 60, 60, 60, 60>>[sub[e].fails]
            /\ sub[e].pc \in {"receive", "dispatch"} =>
                  sub[e].retry_count = 0 /\ sub[e].fails = 0
            /\ (sub[e].running /\ sub[e].fails >= 10) => sub[e].pc = "done")
    /\ [][\A e \in Endpoints :
            sub'[e] # sub[e] => \A o \in Endpoints \ {e} : sub'[o] = sub[o]]_vars

\* C17 amended: as above, but the endpoint stops reconnecting at its 11th
\* consecutive failure, after 10 reconnect attempts have failed.
StopsAfterTenFailedReconnects ==
    /\ [](\A e \in Endpoints :
            /\ sub[e].pc = "sleep" =>
                  sub[e].wait = <<1, 2, 4, 8, 16, 32, 60, 60, 60, 60, 60>>[sub[e].fails]
            /\ sub[e].pc \in {"receive", "dispatch"} =>
                  sub[e].retry_count = 0 /\ sub[e].fails = 0
            /\ sub[e].running =>
                  /\ sub[e].retry_count = sub[e].fails
                  /\ sub[e].pc = "done" <=> sub[e].fails = 11)
    /\ [][\A e \in Endpoints :
            sub'[e] # sub[e] => \A o \in Endpoints \ {e} : sub'[o] = sub[o]]_vars

\* one endpoint has given up after its 11th failure while the other one,
\* connected again after failures of its own, dispatches a frame
OneEndpointGaveUpOtherDispatches ==
    /\ sub["NETWORK_STATUS"].pc = "done"
    /\ sub["NETWORK_STATUS"].running
    /\ sub["NETWORK_STATUS"].fails = 11
    /\ sub["FLOW_UPDATE"].pc = "dispatch"
    /\ frames.received = 2

\* C18: a call of EventSubscriberManager.start on a started manager changes
\* nothing: no thread and no subscriber is created, and a started manager has
\* one current thread and one subscriber per endpoint.  A call of
\* start_flow_detection_workers on started workers creates no dispatcher and
\* no pool, and started workers have one of each.  A start that follows a
\* stop creates a fresh subscriber for every endpoint and one thread, and
\* that thread runs connect() for exactly these subscribers.
StartIsIdempotentAndRestartsAfterStop ==
    /\ [](/\ mgr.running =>
              /\ mgr.thread \in 1..Len(threads)
              /\ \A e \in Endpoints : mgr.subscribers[e] = mgr.created[e] /\ mgr.created[e] > 0
              /\ threads[mgr.thread].state \in {"looping", "finished"} =>
                    threads[mgr.thread].tasks = {<<e, mgr.subscribers[e]>> : e \in Endpoints}
          /\ fw.workers_started =>
              /\ fw.executor = fw.executors_created /\ fw.executor \in fw.executors_alive
              /\ fw.batcher = fw.batchers_created /\ fw.batcher \in fw.batchers_alive)
    /\ [][/\ (mgr'.calls = mgr.calls + 1 /\ mgr'.last = "start") =>
              IF mgr.running
              THEN /\ threads' = threads
                   /\ mgr'.thread = mgr.thread
                   /\ mgr'.subscribers = mgr.subscribers
                   /\ mgr'.created = mgr.created
                   /\ mgr'.running
              ELSE /\ Len(threads') = Len(threads) + 1
                   /\ mgr'.thread = Len(threads')
                   /\ \A e \in Endpoints : mgr'.created[e] = mgr.created[e] + 1
                   /\ mgr'.running
          /\ (fw'.calls = fw.calls + 1 /\ fw'.last = "start") =>
              IF fw.workers_started
              THEN /\ fw'.executors_created = fw.executors_created
                   /\ fw'.batchers_created = fw.batchers_created
                   /\ fw'.executor = fw.executor
                   /\ fw'.batcher = fw.batcher
                   /\ fw'.workers_started
              ELSE /\ fw'.executors_created = fw.executors_created + 1
                   /\ fw'.batchers_created = fw.batchers_created + 1
                   /\ fw'.workers_started
         ]_vars

\* C18 witness: start, start, stop, start on the manager has made two threads
\* and two subscribers per endpoint and the second thread runs the second
\* subscribers; two starts of the workers have made one pool and dispatcher
RestartedAfterRepeatedStart ==
    /\ mgr.calls = 4 /\ mgr.running /\ Len(threads) = 2
    /\ \A e \in Endpoints : mgr.created[e] = 2
    /\ threads[2].state = "looping"
    /\ \A e \in Endpoints : [obj |-> <<e, 2>>, t |-> 2, state |-> "active"] \in cos
    /\ threads[1].state = "finished"
    /\ fw.calls = 2 /\ fw.last = "start" /\ fw.workers_started
    /\ fw.executors_created = 1 /\ fw.batchers_created = 1

\* C19 (as stated): get_recent_events returns the cached events
\* most-recent-first: of two returned events, the one recorded later comes
\* earlier in the list.
RecentEventsNewestFirst ==
    \A i, j \in 1..Len(recent.items) :
        i < j => recent.items[i].n > recent.items[j].n

\* C19 (amended): get_recent_events returns the cached events oldest-first:
\* of two returned events, the one recorded later comes later in the list;
\* the events returned are recorded events of the types asked for, at most
\* `limit` of them.
RecentEventsOldestFirst ==
    /\ \A i, j \in 1..Len(recent.items) :
          i < j => recent.items[i].n < recent.items[j].n
    /\ \A i \in 1..Len(recent.items) :
          /\ \E k \in 1..Len(appended) : appended[k] = recent.items[i]
          /\ recent.types.is_none \/ recent.items[i].type \in recent.types.types
    /\ Len(recent.items) <= recent.limit

\* C19 witness: a request with a type filter was answered with two events,
\* the older of which is not the first event recorded
FilteredAnswerWithTwoEvents ==
    /\ recent.requests = 1
    /\ ~recent.types.is_none
    /\ Len(recent.items) = 2
    /\ recent.items[1].n > 1

\* C20: a packet-in whose winning matched policy has action drop, deny, block
\* or isolate is dropped: it is neither forwarded nor flooded and no flow
\* rule is installed for it.
DropPolicyDropsPacketIn ==
    (pkt_in.handled /\ pkt_in.raw \in {"drop", "deny", "block", "isolate"}) =>
        /\ pkt_in.fate = "dropped"
        /\ ~pkt_in.flow_rule

\* C21: when check_packet's verdict comes from the redirect policy the
\* auto-responder created, the action is redirect and action_params holds
\* the targets list with the honeypot IP.
ResponderRedirectCarriesHoneypot ==
    (/\ cp_result.winner # 0
     /\ cp_policies[cp_result.winner].name = AutoPolicyName("redirect")) =>
        /\ cp_result.final_action = "redirect"
        /\ cp_result.action_params = [kind |-> "targets", v |-> HoneypotIp]

\* C22: every policy mutation through the controller API that changes the
\* policy table (create, update, delete, apply, revoke) leaves no flow rule
\* installed: the rules installed under the previous policy set are cleared.
PolicyMutationClearsFlows ==
    [][cp_policies' # cp_policies => ~flow_rules']_vars

\* C23: a flow whose prediction raised inside the classifier is recorded with
\* detect_status error, decision level normal and prob 0.
ClassifierErrorRecordedAsError ==
    \A d \in decisions :
        d.via = "raise" =>
            /\ d.detect_status = "error"
            /\ d.decision_level = "normal"
            /\ d.prob = 0

\* C24: a flow_detection_result event is in the event cache for a flow if and
\* only if a committed batch wrote a suspicious or dangerous result for it
\* (the probabilities of the model's flows follow their levels).
DetectionEventIffSuspiciousOrDangerous ==
    LET notable(k) == det_logs[k].decision_level \in {"alert", "throttle", "block", "redirect"}
        emitted(f) == \E j \in 1..Len(appended) :
                         appended[j].type = "FLOW_DETECTION" /\ appended[j].flow = f
    IN  \A f \in Flows :
           emitted(f) <=> \E k \in 1..Len(det_logs) : det_logs[k].flow_id = f /\ notable(k)

\* C25: at most one thread of a client is inside a token acquisition or a
\* token refresh (get_token or refresh_token, from its HTTP request to the
\* store of the answer) at any time.
OneTokenRenewalAtATime ==
    Cardinality({t \in ClientThreads :
                    cl[t].pc \in {"get_token", "refresh_http", "store"}}) <= 1

UpsertKeepsDetectionFields ==
    \A e \in FlowEvents, found \in BOOLEAN, insert_ok \in BOOLEAN :
        (e.flow_id \in Flows /\ (found => db_rows[e.flow_id].exists)) =>
            LET old == db_rows[e.flow_id]
                new == _sync_flow_to_db(found, old, e, insert_ok)
            IN  /\ old.exists =>
                     /\ new.exists
                     /\ new.detect_status = old.detect_status
                     /\ new.decision_level = old.decision_level
                     /\ new.prob = old.prob
                     /\ new.anomaly_score = old.anomaly_score
                     /\ new.detected_at = old.detected_at
                /\ (~old.exists /\ new.exists) =>
                     /\ new.detect_status = "pending"
                     /\ new.decision_level = "normal"
                     /\ new.prob = 0
                     /\ new.anomaly_score = 0

\* C27 witness: flow f1 was written back as a flood and then again as a
\* burst: the second upsert found the row with the first result on it.
UpsertFoundDetectedRow ==
    /\ db_rows["f1"].exists
    /\ db_rows["f1"].flow.rate = "burst"
    /\ \E k \in 1..Len(det_logs) :
          det_logs[k].flow_id = "f1" /\ det_logs[k].decision_level = "block"

\* C28: the committed row of a flow never carries the detection result of an
\* observation without that observation's base fields: its decision level is
\* the one predicted for the snapshot stored in the row, or the prediction
\* had failed.
DetectionFieldsBelongToStoredSnapshot ==
    \A f \in Flows :
        db_rows[f].exists =>
            \/ db_rows[f].detect_status = "error"
            \/ /\ db_rows[f].decision_level = Predict(db_rows[f].flow)
               /\ db_rows[f].prob = PredictProb(db_rows[f].flow)

InactivePolicyNeverInfluencesVerdict ==
    /\ [](LET Verdict(r) == <<r.final_action, r.reason, r.action_params,
                              r.highest_priority>>
              IsActive(p) == p.status = "active"
          IN  /\ \A pkt \in Packets :
                    Verdict(check_packet(cp_policies, pkt))
                      = Verdict(check_packet(SelectSeq(cp_policies, IsActive), pkt))
              /\ cp_result # NoResult =>
                    Verdict(cp_result)
                      = Verdict(check_packet(SelectSeq(cp_policies, IsActive), cp_packet)))
    /\ [][ \A k \in 1..Len(cp_policies) :
             ( /\ Len(cp_policies') = Len(cp_policies)
               /\ cp_policies[k].status # "active"
               /\ cp_policies'[k].status = "active" ) =>
                \A pkt \in Packets :
                   ( /\ Matches(cp_policies'[k], pkt)
                     /\ cp_policies'[k].priority
                          > check_packet(cp_policies, pkt).highest_priority )
                   => check_packet(cp_policies', pkt).winner = k
          ]_vars

\* C30 witness: the table holds a revoked policy that matches the packet
\* last checked with the highest priority of the table, and the answer for
\* that packet was the default allow.
RevokedBlockerIgnored ==
    /\ cp_result # NoResult
    /\ cp_result.final_action = "allow"
    /\ cp_result.winner = 0
    /\ \E k \in 1..Len(cp_policies) :
          /\ cp_policies[k].status = "inactive"
          /\ Matches(cp_policies[k], cp_packet)
          /\ NormalizeAction(RawAction(cp_policies[k])) = "drop"

\* C31: when several active policies that match the packet last checked
\* share the highest priority among the matching ones, the action and the
\* reason returned are those of the one that comes last in the table.
TieResolvedLastWins ==
    cp_result # NoResult =>
        LET matched == {k \in 1..Len(cp_policies) :
                          /\ cp_policies[k].status = "active"
                          /\ Matches(cp_policies[k], cp_packet)}
            top     == {k \in matched :
                          \A j \in matched :
                             cp_policies[k].priority >= cp_policies[j].priority}
            last    == CHOOSE k \in top : \A j \in top : j <= k
        IN  Cardinality(top) >= 2 =>
               /\ cp_result.final_action = NormalizeAction(RawAction(cp_policies[last]))
               /\ cp_result.reason = IF cp_policies[last].name # None
                                         THEN cp_policies[last].name
                                         ELSE cp_policies[last].id

WhitelistRulesAsStated ==
    pf.called =>
        LET f     == pf.flow
            low   == f.pkt_rate # Absent /\ f.pkt_rate < 5
            quiet == /\ f.func_code_entropy # Absent /\ f.func_code_entropy < 10
                     /\ f.reg_addr_std # Absent /\ f.reg_addr_std < 5
            noisy == f.func_code_entropy >= 10 \/ f.reg_addr_std >= 5
        IN  /\ (low /\ quiet) =>
                  /\ pf.prob = 1 /\ pf.label = "Normal" /\ pf.decision_level = "normal"
                  /\ pf.via = "whitelist"
            /\ (low /\ noisy) => pf.rule # "low_rate"
            /\ (f.pkt_count = Absent /\ (f.pkt_rate = Absent \/ f.pkt_rate <= 1000)) =>
                  /\ pf.prob = 0 /\ pf.decision_level = "normal"
                  /\ pf.via = "whitelist"
            /\ (f.pkt_count = Absent /\ f.pkt_rate > 1000) => pf.via \in {"model", "raise"}

\* C33 (amended): as above, the answer prob 0 being given to the flows
\* without pkt_count that the low-rate rule has not answered.
WhitelistRulesInOrder ==
    pf.called =>
        LET f     == pf.flow
            low   == f.pkt_rate # Absent /\ f.pkt_rate < 5
            quiet == /\ f.func_code_entropy # Absent /\ f.func_code_entropy < 10
                     /\ f.reg_addr_std # Absent /\ f.reg_addr_std < 5
            noisy == f.func_code_entropy >= 10 \/ f.reg_addr_std >= 5
        IN  /\ (low /\ quiet) =>
                  /\ pf.prob = 1 /\ pf.label = "Normal" /\ pf.decision_level = "normal"
                  /\ pf.via = "whitelist"
            /\ (low /\ noisy) => pf.rule # "low_rate"
            /\ ( /\ pf.rule # "low_rate"
                  /\ f.pkt_count = Absent
                  /\ (f.pkt_rate = Absent \/ f.pkt_rate <= 1000) ) =>
                  /\ pf.prob = 0 /\ pf.decision_level = "normal"
                  /\ pf.via = "whitelist"
            /\ (f.pkt_count = Absent /\ f.pkt_rate > 1000) => pf.via \in {"model", "raise"}

\* C33 witness: a slow, quiet flow without pkt_count was answered by the
\* low-rate rule with prob 0.01.
QuietFlowWithoutCountAnsweredByFirstRule ==
    /\ pf.called
    /\ pf.flow.pkt_rate = 2
    /\ pf.flow.func_code_entropy = 5
    /\ pf.flow.reg_addr_std = 4
    /\ pf.flow.pkt_count = Absent
    /\ pf.rule = "low_rate"
    /\ pf.prob = 1

\* C34: the meter id of a throttle rule lies in 1..0xFFFF, and the meter's
\* rate in kbps is bandwidth_mbps * 1000 and never below 1000.
MeterIdInRangeAndRateFloored ==
    mt # NoMeter =>
        LET kbps == IntOfTenths(Get(mt.bandwidth_mbps, 10000))
        IN  /\ mt.meter_id \in 1..Mask16
            /\ mt.rate_kbps >= 1000
            /\ kbps >= 1000 => mt.rate_kbps = kbps

\* the tasks in the batches submitted so far, then those the dispatcher
\* holds, then those still queued
RECURSIVE BatchedTasks(_)
BatchedTasks(k) ==
    IF k = 0 THEN <<>> ELSE BatchedTasks(k - 1) \o pipe.batches[k].tasks

TasksInTakeOrder == BatchedTasks(Len(pipe.batches)) \o batcher.tasks \o task_queue

\* C35: every submitted batch holds between 1 and BATCH_SIZE tasks; the
\* tasks are taken from the head of the queue in arrival order, so each
\* task is in at most one batch; and the dispatcher that finds the queue
\* empty while filling submits what it has instead of waiting.
BatchesAreBoundedFifoAndDisjoint ==
    /\ [](\A b \in 1..Len(pipe.batches) :
              Len(pipe.batches[b].tasks) \in 1..BATCH_SIZE)
    /\ [](\A i, j \in 1..Len(TasksInTakeOrder) :
              i < j => TasksInTakeOrder[i].n < TasksInTakeOrder[j].n)
    /\ [][(batcher.pc = "fill" /\ task_queue = <<>> /\ batcher' # batcher)
              => /\ batcher'.pc = "wait"
                 /\ Len(pipe'.batches) = Len(pipe.batches) + 1
                 /\ pipe'.batches[Len(pipe'.batches)].tasks = batcher.tasks]_vars

\* C35 witness: a batch submitted short because the queue ran empty, and a
\* later full batch
ShortBatchThenFullBatch ==
    \E a, b \in 1..Len(pipe.batches) :
        /\ a < b
        /\ Len(pipe.batches[a].tasks) < BATCH_SIZE
        /\ Len(pipe.batches[b].tasks) = BATCH_SIZE

\* C36: ensure_token with a cached token inside the refresh margin
\* terminates: no caller is left waiting for the token mutex while the
\* mutex is held by a thread that will never release it (here: by the
\* waiting caller itself).
EnsureTokenReleasesMutex ==
    \A t \in ClientThreads :
        ~(cl[t].pc = "deadlock" /\ token_lock = t)

\* invocation i has passed the once-per-flow gate
PassedGate(i) ==
    \/ ar[i].pc \in {"topology", "create", "apply", "emit", "except", "failed", "hung"}
    \/ ar[i].pc = "returned" /\ ar[i].action # None

\* invocation i holds the gate: it has passed it and has not removed the
\* flow again (it is running, has returned, or will never return)
HoldsGate(i) == PassedGate(i) /\ ar[i].pc # "failed"

\* C37 as stated: of two invocations for one flow that run concurrently, at
\* most one passes the once-per-flow gate.
ConcurrentInvocationsPassGateOnce ==
    \A i, j \in Responders :
        (i # j /\ ar[i].flow = ar[j].flow /\ j \in ar[i].overlaps)
            => ~(PassedGate(i) /\ PassedGate(j))

\* C37, amended: at most one invocation for a flow holds the gate at a time,
\* and an invocation reaches the topology query only through a gate that no
\* other invocation for its flow holds; the test and the insertion are one
\* step.
GateHeldByOneInvocation ==
    /\ [](\A i, j \in Responders :
              (i # j /\ ar[i].flow = ar[j].flow) => ~(HoldsGate(i) /\ HoldsGate(j)))
    /\ [](\A i \in Responders : HoldsGate(i) => ar[i].flow \in responded_flows)
    /\ [][\A i \in Responders :
              (ar[i].pc = "gate" /\ ar'[i].pc # "gate")
                  => IF \E j \in Responders : j # i /\ ar[j].flow = ar[i].flow /\ HoldsGate(j)
                     THEN /\ ar'[i].pc = "returned"
                          /\ ar'[i].topo = NoTopology
                          /\ policies' = policies
                     ELSE ar'[i].pc = "topology"]_vars

\* C37 witness: an invocation was turned away at the gate while a concurrent
\* invocation for the same flow held it
SecondInvocationTurnedAway ==
    \E i, j \in Responders :
        /\ i # j /\ ar[i].flow = ar[j].flow /\ j \in ar[i].overlaps
        /\ ar[i].pc = "returned" /\ ar[i].action = None
        /\ ar[j].pc \in {"topology", "create", "apply", "emit"}

\* C38: every batch the dispatcher takes from the queue is submitted to
\* the worker pool; none is discarded, also when
\* stop_flow_detection_workers runs at the same time and resets _executor
\* and the stop flag.
NoDequeuedBatchDiscarded == ~sd.discarded

\* C39: the responder threads a write-back pass has started are for
\* results the store holds: for each of them a detection log of that flow
\* with that decision level has been committed (by this pass or an earlier
\* one); a pass that is rolled back starts none for a result that was never
\* committed.
ResponderStartedOnlyForCommittedResult ==
    \A s \in pipe.last_spawned :
        \E k \in 1..Len(det_logs) :
            /\ det_logs[k].flow_id = s.flow_id
            /\ det_logs[k].decision_level = s.decision_level

\* C40: the action_params check_packet returned for the packet last
\* checked are those of the policy whose action it returned: empty when the
\* action is drop or allow, also when a throttle or redirect policy of lower
\* priority matched earlier in the loop, and otherwise the parameters
\* extracted from the winning policy.
ParamsBelongToReturnedAction ==
    cp_result # NoResult =>
        /\ cp_result.final_action \in {"drop", "allow"}
              => cp_result.action_params = EmptyParams
        /\ (cp_result.winner # 0 /\ cp_result.final_action \in {"throttle", "redirect"})
              => cp_result.action_params =
                    ExtractParams(cp_policies[cp_result.winner], EmptyParams)

====
